---- MODULE Spec2Model ----
(***************************************************************************)
(* Storage-rent bot: eligibility scan, height-bucket queue, batch build    *)
(* and submit cycle.                                                       *)
(*                                                                         *)
(* Sources: src/src/services/storageRentBot.ts (orchestrator),             *)
(*          src/src/services/ergoNode.ts (scanner, node client),           *)
(*          src/src/services/transactionService.ts (batch builder,         *)
(*          rent-funds-fee), src/unnamed/part_002 (batch builder,          *)
(*          fee-from-wallet-UTXOs), src/src/database/index.ts (store).     *)
(*                                                                         *)
(* Granularity: JavaScript runs one callback to completion, so every       *)
(* action is the code between two awaits of one asynchronous call chain.   *)
(* Awaits that touch no state of the bot, the store or the node are folded *)
(* into the neighbouring step.                                             *)
(***************************************************************************)
EXTENDS Integers, Sequences, FiniteSets, TLC

(***************************************************************************)
(* Bounds of the model.  The program's large constants are scaled down so  *)
(* that every case of the code happens within a few boxes and blocks.      *)
(***************************************************************************)
\* number of main cycles that may be in flight at once
MaxCycles == 2
\* last chain height the model lets the chain reach
MaxHeight == 8
\* how far below 0 failing pages may drive the scanner's offset
MaxUnderrun == 3

(***************************************************************************)
(* Program constants (scaled).                                             *)
(***************************************************************************)
\* ergoNode.ts:193  const batchSize = 1000
batchSize == 2
\* storageRentBot.ts:175  targetBoxCount argument, 50
targetBoxCount == 2
\* ergoNode.ts:195  offset used when startOffset === 0, 44160000
InitialOffset == 4
\* ergoNode.ts:247  look-ahead window, 1000 blocks
LookAhead == 2
\* storageRentBot.ts:165  rescan interval, 50 blocks
RescanInterval == 1
\* database/index.ts:539  minStorageRentAgeBlocks, 1051200
minStorageRentAgeBlocks == 3
\* database/index.ts:532  maxBoxesPerTx, 50
maxBoxesPerTx == 2
\* database/index.ts:534  rentFeePerByte, 1250000
rentFeePerByte == 1
\* database/index.ts:535  minBoxValuePerByte, 360
minBoxValuePerByte == 1
\* @fleet-sdk/core RECOMMENDED_MIN_FEE_VALUE (transactionService.ts:111), 1100000
RECOMMENDED_MIN_FEE_VALUE == 2
\* database/index.ts:549  config.transactionFee, 1000000
transactionFee == 1
\* storageRentBot.ts:589 (20): confirmation polls per transaction
maxAttempts == 2
\* chain height when the bot is constructed: the oldest boxes of the index
\* are past the rent age, the youngest are not yet in the look-ahead window
StartHeight == minStorageRentAgeBlocks + 4

(***************************************************************************)
(* The node's box index: position p (0-based) holds BoxIndex[p + 1].       *)
(* A box is immutable while unspent; whether it is spent is state.         *)
(***************************************************************************)
\* An ergoTree is a sequence of parts: the prefix "0008cd" and a public key
\* for a pay-to-public-key script, the script's bytes otherwise.  Assets are
\* [tokenId, amount] in the box's order; additionalRegisters are the values
\* of R4, R5, ... in order.
BoxIndex ==
  << [boxId |-> "b0", creationHeight |-> 2, boxSize |-> 3, value |-> 6,
      ergoTree |-> << "0008cd", "pkA" >>, assets |-> << >>,
      additionalRegisters |-> << >>],
     [boxId |-> "b1", creationHeight |-> 3, boxSize |-> 3, value |-> 6,
      ergoTree |-> << "0008cd", "pkB" >>,
      assets |-> << [tokenId |-> "t1", amount |-> 2] >>,
      additionalRegisters |-> << >>],
     [boxId |-> "b2", creationHeight |-> 4, boxSize |-> 1, value |-> 5,
      ergoTree |-> << "script1" >>,
      assets |-> << [tokenId |-> "t2", amount |-> 1], [tokenId |-> "t1", amount |-> 5] >>,
      additionalRegisters |-> << "0402", "0e01aa" >>],
     [boxId |-> "b3", creationHeight |-> 4, boxSize |-> 2, value |-> 3,
      ergoTree |-> << "0008cd", "pkA" >>, assets |-> << >>,
      additionalRegisters |-> << "0402" >>],
     [boxId |-> "b4", creationHeight |-> 6, boxSize |-> 2, value |-> 7,
      ergoTree |-> << "script1" >>, assets |-> << >>,
      additionalRegisters |-> << >>],
     [boxId |-> "b5", creationHeight |-> 4, boxSize |-> 3, value |-> 9,
      ergoTree |-> << "0008cd", "pkB" >>,
      assets |-> << [tokenId |-> "t2", amount |-> 7] >>,
      additionalRegisters |-> << >>] >>

BoxIds == { BoxIndex[p].boxId : p \in 1..Len(BoxIndex) }

BoxOf(id) == CHOOSE b \in { BoxIndex[p] : p \in 1..Len(BoxIndex) } : b.boxId = id

(***************************************************************************)
(* Sequence helpers.                                                       *)
(***************************************************************************)
Reverse(s) == [ i \in 1..Len(s) |-> s[Len(s) + 1 - i] ]

RECURSIVE SumSeq(_)
SumSeq(s) == IF s = << >> THEN 0 ELSE Head(s) + SumSeq(Tail(s))

RECURSIVE Concat(_)
Concat(ss) == IF ss = << >> THEN << >> ELSE Head(ss) \o Concat(Tail(ss))

Range(s) == { s[i] : i \in 1..Len(s) }

Min(a, b) == IF a < b THEN a ELSE b

Slice_endInclusive(s, from, to) == SubSeq(s, from + 1, Min(to + 1, Len(s)))

\* Array.prototype.slice(from, to) with 0-based, end-exclusive bounds
Slice(s, from, to) == SubSeq(s, from + 1, Min(to, Len(s)))

\* Array.prototype.indexOf, 0-based
IndexOf(s, x) == CHOOSE i \in 0..(Len(s) - 1) : s[i + 1] = x /\ \A j \in 0..(i - 1) : s[j + 1] # x

(***************************************************************************)
(* JavaScript Map<number, EligibleBox[]>: entries in insertion order.      *)
(***************************************************************************)
MapHas(m, h) == \E i \in 1..Len(m) : m[i].height = h

\* if (!m.has(h)) m.set(h, []);  m.get(h).push(...boxes)
MapPush(m, h, boxes) ==
  LET m1 == IF MapHas(m, h) THEN m ELSE Append(m, [height |-> h, boxes |-> << >>])
  IN  [ i \in 1..Len(m1) |->
          IF m1[i].height = h THEN [m1[i] EXCEPT !.boxes = @ \o boxes] ELSE m1[i] ]

\* only the first box of every bucket
MapBoxes_firstOfEach(m) == Concat([ i \in 1..Len(m) |-> SubSeq(m[i].boxes, 1, 1) ])

\* all boxes of a map, bucket after bucket
MapBoxes(m) == Concat([ i \in 1..Len(m) |-> m[i].boxes ])

MapBoxIds(m) == LET bs == MapBoxes(m) IN [ i \in 1..Len(bs) |-> bs[i].boxId ]

(***************************************************************************)
(* ErgoNodeService.scanForEligibleBoxes (ergoNode.ts:177-340).             *)
(***************************************************************************)
\* GET /blockchain/box/range?offset&limit: the ids at index positions
\* offset .. offset+limit-1 that exist, in index order
BoxRange(offset, limit) ==
  LET lo == IF offset < 0 THEN 0 ELSE offset
      hi == Min(offset + limit, Len(BoxIndex))
  IN  [ i \in 1..(IF hi > lo THEN hi - lo ELSE 0) |-> BoxIndex[lo + i].boxId ]

\* the distance taken from the box's creation height alone
blocksUntilEligible_ignoresMinAge(box, currentHeight, minAge) ==
  box.creationHeight - currentHeight

\* ergoNode.ts:236-237
blocksUntilEligible(box, currentHeight, minAge) ==
  (box.creationHeight + minAge) - currentHeight

\* ergoNode.ts:255  BigInt(boxSize * this.config.rentFeePerByte): a product
\* of two integer Numbers, exact below 2^53, converted without loss
RentFee(boxSize, feePerByte) == boxSize * feePerByte

SufficientValue_ignoresMinimum(value, boxSize, feePerByte, minPerByte) ==
  value >= RentFee(boxSize, feePerByte)

\* ergoNode.ts:261  boxValue >= rentFee + BigInt(minBoxValuePerByte * boxSize)
SufficientValue(value, boxSize, feePerByte, minPerByte) ==
  value >= RentFee(boxSize, feePerByte) + minPerByte * boxSize

\* ergoNode.ts:255 with the configured rate
rentFeeOf(box) == RentFee(box.boxSize, rentFeePerByte)

\* ergoNode.ts:261 with the configured rates
hasSufficientValue(box) ==
  SufficientValue(box.value, box.boxSize, rentFeePerByte, minBoxValuePerByte)

\* ergoNode.ts:229-302: what the scanner decides for one fetched box
CheckBox(box, currentHeight, minAge, feePerByte, minPerByte) ==
  IF box.spent
    THEN [ accepted |-> FALSE, rentFee |-> 0 ]
  ELSE IF blocksUntilEligible(box, currentHeight, minAge) > LookAhead
    THEN [ accepted |-> FALSE, rentFee |-> 0 ]
  ELSE [ accepted |-> SufficientValue(box.value, box.boxSize, feePerByte, minPerByte),
         rentFee  |-> RentFee(box.boxSize, feePerByte) ]

\* ergoNode.ts:262-277
MakeEligibleBox(box, currentHeight, minAge) ==
  [ boxId          |-> box.boxId,
    creationHeight |-> box.creationHeight,
    boxSize        |-> box.boxSize,
    value          |-> box.value,
    rentFee        |-> rentFeeOf(box),
    status         |-> IF blocksUntilEligible(box, currentHeight, minAge) <= 0
                       THEN "pending" ELSE "queued",
    ergoTree       |-> box.ergoTree,
    assets         |-> [ i \in 1..Len(box.assets) |->
                           [ tokenId |-> box.assets[i].tokenId,
                             amount  |-> box.assets[i].amount ] ],
    additionalRegisters |-> box.additionalRegisters ]

\* the state of one call: the locals of scanForEligibleBoxes
ScanStart(startOffset) ==
  [ offset          |-> IF startOffset = 0 THEN InitialOffset ELSE startOffset,
    nextOffset      |-> startOffset,
    boxesByHeight   |-> << >>,
    totalBoxesFound |-> 0,
    returned        |-> FALSE ]

\* ergoNode.ts:297  nextOffset when the target is reached at boxId
NextOffsetAtTarget(offset, boxIds, boxId) ==
  offset - (batchSize - IndexOf(boxIds, boxId))

\* the failure of one fetch ending the page with what was accepted before
AfterFetchFailure_abortsPage(st, next) == st

\* ergoNode.ts:304-306: the catch inside the for loop logs the failure; the
\* loop goes on with the next id.  st: the locals at the failing id, next:
\* the locals after the rest of the page
AfterFetchFailure(st, next) == next

\* ergoNode.ts:218-307: the for loop over one (reversed) page, from the
\* i-th id on.  spentNow: boxes the node reports spent; failing: ids whose
\* fetch throws (caught at 304-306, the id is skipped).
RECURSIVE ScanBoxes(_, _, _, _, _, _, _)
ScanBoxes(boxIds, i, st, currentHeight, minAge, spentNow, failing) ==
  IF i > Len(boxIds) THEN st
  ELSE
    LET boxId == boxIds[i]
        box   == BoxOf(boxId)
        next  == ScanBoxes(boxIds, i + 1, st, currentHeight, minAge, spentNow, failing)
    IN  IF boxId \in failing THEN AfterFetchFailure(st, next)
        ELSE IF boxId \in spentNow THEN next
        ELSE IF blocksUntilEligible(box, currentHeight, minAge) > LookAhead THEN next
        ELSE IF ~hasSufficientValue(box) THEN next
        ELSE
          LET eb    == MakeEligibleBox(box, currentHeight, minAge)
              added == [st EXCEPT
                          !.boxesByHeight   = MapPush(@, box.creationHeight, << eb >>),
                          !.totalBoxesFound = @ + 1]
          IN  IF added.totalBoxesFound >= targetBoxCount
              THEN [added EXCEPT
                      !.nextOffset = NextOffsetAtTarget(st.offset, boxIds, boxId),
                      !.returned   = TRUE]
              ELSE ScanBoxes(boxIds, i + 1, added, currentHeight, minAge, spentNow, failing)

\* ergoNode.ts:198-312: one iteration of the while loop whose page request
\* succeeded
ScanPageOk(st, currentHeight, minAge, spentNow, failing) ==
  LET boxIds == Reverse(BoxRange(st.offset, batchSize))
  IN  IF boxIds = << >>
      THEN [st EXCEPT !.returned = TRUE]
      ELSE
        LET r == ScanBoxes(boxIds, 1, st, currentHeight, minAge, spentNow, failing)
        IN  IF r.returned THEN r
            ELSE [r EXCEPT !.offset = st.offset - batchSize,
                           !.nextOffset = st.offset - batchSize]

\* ergoNode.ts:313-317: the page request threw
ScanPageFailed(st) ==
  [st EXCEPT !.offset = @ - batchSize, !.nextOffset = st.offset - batchSize]

\* a whole call whose requests all succeed, over an unchanged index
RECURSIVE ScanRun(_, _, _, _)
ScanRun(st, currentHeight, minAge, spentNow) ==
  IF st.returned \/ st.totalBoxesFound >= targetBoxCount THEN st
  ELSE ScanRun(ScanPageOk(st, currentHeight, minAge, spentNow, {}),
               currentHeight, minAge, spentNow)

scanForEligibleBoxes(currentHeight, minAge, startOffset, spentNow) ==
  LET st == ScanRun(ScanStart(startOffset), currentHeight, minAge, spentNow)
  IN  [ boxesByHeight |-> st.boxesByHeight, nextOffset |-> st.nextOffset ]

(***************************************************************************)
(* StorageRentBot.runScanAndProcess, queue part (storageRentBot.ts).       *)
(***************************************************************************)
\* storageRentBot.ts:165
shouldScanQueue(currentHeight, lastScanHeight) ==
  currentHeight - lastScanHeight >= RescanInterval

\* storageRentBot.ts:179-184: merge a scan result into the queue
RECURSIVE MergeIntoQueue(_, _)
MergeIntoQueue(queue, found) ==
  IF found = << >> THEN queue
  ELSE MergeIntoQueue(MapPush(queue, Head(found).height, Head(found).boxes), Tail(found))

\* the comparison with the boundary height included
isEligible_atBoundary(height, currentHeight, minAge) == currentHeight >= height + minAge

\* storageRentBot.ts:206-207
isEligible(height, currentHeight, minAge) == currentHeight > height + minAge

\* SelectSeq with a two-argument test
RECURSIVE FilterBuckets(_, _, _, _)
FilterBuckets(queue, currentHeight, minAge, keepEligible) ==
  IF queue = << >> THEN << >>
  ELSE LET rest == FilterBuckets(Tail(queue), currentHeight, minAge, keepEligible)
       IN  IF isEligible(Head(queue).height, currentHeight, minAge) = keepEligible
           THEN << Head(queue) >> \o rest ELSE rest

\* the promotion without the deletion of the promoted buckets
Promote_keepsBuckets(queue, currentHeight, minAge) ==
  LET gone == FilterBuckets(queue, currentHeight, minAge, TRUE)
  IN  [ nowEligible     |-> MapBoxes(gone),
        heightsToRemove |-> [ i \in 1..Len(gone) |-> gone[i].height ],
        queue           |-> queue ]

\* storageRentBot.ts:201-220: promote the eligible buckets
Promote(queue, currentHeight, minAge) ==
  LET gone == FilterBuckets(queue, currentHeight, minAge, TRUE)
  IN  [ nowEligible     |-> MapBoxes(gone),
        heightsToRemove |-> [ i \in 1..Len(gone) |-> gone[i].height ],
        queue           |-> FilterBuckets(queue, currentHeight, minAge, FALSE) ]

(***************************************************************************)
(* TransactionService.createTransactionBatches                             *)
(* (transactionService.ts:29-38).                                          *)
(***************************************************************************)
RECURSIVE BatchesFrom(_, _, _)
BatchesFrom(boxes, i, size) ==
  IF i >= Len(boxes) THEN << >>
  ELSE << Slice(boxes, i, i + size) >> \o BatchesFrom(boxes, i + size, size)

createTransactionBatches(boxes) == BatchesFrom(boxes, 0, maxBoxesPerTx)

\* ErgoNodeService.validateBoxes (ergoNode.ts:357-367): every id is valid
validateBoxes(boxIds) == [ valid |-> boxIds, invalid |-> << >> ]

(***************************************************************************)
(* TransactionService.buildStorageRentTransaction.                         *)
(* An unsigned transaction is [inputs, outputs, fee]: inputs are           *)
(* [boxId, value, creationHeight, marker], outputs are [value, ergoTree,   *)
(* assets, additionalRegisters].                                           *)
(***************************************************************************)
BuildError(msg) == [ ok |-> FALSE, error |-> msg ]

\* ErgoAddress.fromErgoTree (transactionService.ts:90): a pay-to-public-key
\* address holds the key, any other address the whole script
fromErgoTree(ergoTree) ==
  IF Head(ergoTree) = "0008cd"
  THEN [ type |-> "P2PK", body |-> Tail(ergoTree) ]
  ELSE [ type |-> "P2S",  body |-> ergoTree ]

\* the script an address stands for
ergoTreeOf(address) ==
  IF address.type = "P2PK" THEN << "0008cd" >> \o address.body ELSE address.body

\* ErgoAddress.fromBase58(changeAddress) (transactionService.ts:85): the
\* wallet's address
changeAddr == [ type |-> "P2PK", body |-> << "changeAddress" >> ]

\* new OutputBuilder(value, address) (transactionService.ts:92-95, 145-148)
OutputBuilder(value, address) ==
  [ value |-> value, ergoTree |-> ergoTreeOf(address),
    assets |-> << >>, additionalRegisters |-> << >> ]

\* one token added to an output's tokens: the amount is added to the entry
\* of the same token id, or a new entry is appended
AddToken(tokens, token) ==
  IF \E i \in 1..Len(tokens) : tokens[i].tokenId = token.tokenId
  THEN [ i \in 1..Len(tokens) |->
           IF tokens[i].tokenId = token.tokenId
           THEN [tokens[i] EXCEPT !.amount = @ + token.amount] ELSE tokens[i] ]
  ELSE Append(tokens, token)

RECURSIVE AddTokensTo(_, _)
AddTokensTo(tokens, more) ==
  IF more = << >> THEN tokens
  ELSE AddTokensTo(AddToken(tokens, Head(more)), Tail(more))

\* OutputBuilder.addTokens (transactionService.ts:96-99)
addTokens(output, tokens) == [output EXCEPT !.assets = AddTokensTo(@, tokens)]

\* OutputBuilder.setAdditionalRegisters (transactionService.ts:100)
setAdditionalRegisters(output, registers) ==
  [output EXCEPT !.additionalRegisters = registers]

\* BoxSelector's default ordering of the inputs it may select (the
\* TransactionBuilder of @fleet-sdk/core, transactionService.ts:151-152):
\* ascending creation height, inputs of one height in the order given
RECURSIVE OrderByCreationHeight(_)
OrderByCreationHeight(inputs) ==
  IF inputs = << >> THEN << >>
  ELSE LET rest == OrderByCreationHeight(Tail(inputs))
           h    == Head(inputs).creationHeight
       IN  SelectSeq(rest, LAMBDA x : x.creationHeight < h)
             \o << Head(inputs) >>
             \o SelectSeq(rest, LAMBDA x : x.creationHeight >= h)

\* BoxSelector's default strategy: inputs are taken in that order until
\* their value covers the target
RECURSIVE AccumulativeSelect(_, _, _)
AccumulativeSelect(inputs, acc, target) ==
  IF inputs = << >> \/ acc >= target THEN << >>
  ELSE << Head(inputs) >>
         \o AccumulativeSelect(Tail(inputs), acc + Head(inputs).value, target)

\* the build without the change output
FleetBuild_noChange(inputs, outputs, fee) ==
  LET sumOut   == SumSeq([ i \in 1..Len(outputs) |-> outputs[i].value ])
      selected == AccumulativeSelect(OrderByCreationHeight(inputs), 0, sumOut + fee)
      sumIn    == SumSeq([ i \in 1..Len(selected) |-> selected[i].value ])
  IN  IF sumIn - sumOut - fee < 0 THEN BuildError("InsufficientInputs")
      ELSE [ ok |-> TRUE,
             unsignedTx |-> [ inputs |-> selected, outputs |-> outputs, fee |-> fee ] ]

\* TransactionBuilder(...).from(inputs).to(outputs).sendChangeTo(changeAddr)
\* .payFee(fee).build()  (transactionService.ts:151-157, part_002:177-183):
\* the inputs are selected from the boxes handed over until they cover the
\* outputs and the fee; what the selected inputs hold beyond them goes to
\* one more output at the change address; boxes that cannot cover them are
\* an error
FleetBuild(inputs, outputs, fee) ==
  LET sumOut   == SumSeq([ i \in 1..Len(outputs) |-> outputs[i].value ])
      selected == AccumulativeSelect(OrderByCreationHeight(inputs), 0, sumOut + fee)
      sumIn    == SumSeq([ i \in 1..Len(selected) |-> selected[i].value ])
      change   == sumIn - sumOut - fee
  IN  IF change < 0 THEN BuildError("InsufficientInputs")
      ELSE [ ok |-> TRUE,
             unsignedTx |->
               [ inputs  |-> selected,
                 outputs |-> IF change > 0
                             THEN Append(outputs, OutputBuilder(change, changeAddr))
                             ELSE outputs,
                 fee     |-> fee ] ]

\* the lookup answering with the box data for a spent box too
getBoxById_ignoresSpent(boxId, spentNow) == << BoxOf(boxId) >>

\* ergoNode.ts:139-149: the box data, or nothing (null) when the node
\* answers 404 because the box is spent or unknown
getBoxById(boxId, spentNow) ==
  IF boxId \in spentNow THEN << >> ELSE << BoxOf(boxId) >>

\* transactionService.ts:51-56
TotalRent(boxes) == SumSeq([ i \in 1..Len(boxes) |-> boxes[i].rentFee ])

\* the recreated outputs without the boxes' tokens
RecreatedOutputs_withoutTokens(boxes) ==
  [ i \in 1..Len(boxes) |->
      setAdditionalRegisters(
        OutputBuilder(boxes[i].value - boxes[i].rentFee, fromErgoTree(boxes[i].ergoTree)),
        boxes[i].additionalRegisters) ]

\* transactionService.ts:88-101: one output per box, value less rent
RecreatedOutputs(boxes) ==
  [ i \in 1..Len(boxes) |->
      setAdditionalRegisters(
        addTokens(
          OutputBuilder(boxes[i].value - boxes[i].rentFee, fromErgoTree(boxes[i].ergoTree)),
          boxes[i].assets),
        boxes[i].additionalRegisters) ]

\* transactionService.ts:74-75: the value written for context variable 127,
\* as bytes: the hex string "03" followed by the index in hexadecimal,
\* padded to two digits (one byte for an index below 256)
ContextVar127(i) == << 3, i >>

\* transactionService.ts:60-82: inputs from the node's box data, with the
\* claim marker (context variable 127) made from the 0-based position
FleetInputs(boxes) ==
  [ i \in 1..Len(boxes) |->
      [ boxId          |-> boxes[i].boxId,
        value          |-> BoxOf(boxes[i].boxId).value,
        creationHeight |-> BoxOf(boxes[i].boxId).creationHeight,
        marker         |-> ContextVar127(i - 1) ] ]

\* the build with the rent check letting a rent equal to the fee pass
BuildRentFundsFee_rentEqualsFee(boxes, spentNow) ==
  LET totalRentCollected == TotalRent(boxes)
      rentAfterFee       == totalRentCollected - RECOMMENDED_MIN_FEE_VALUE
  IN  IF \E i \in 1..Len(boxes) : getBoxById(boxes[i].boxId, spentNow) = << >>
        THEN BuildError("BoxNotFound")
      ELSE IF rentAfterFee < 0
        THEN BuildError("InsufficientRent")
      ELSE
        LET built == FleetBuild(FleetInputs(boxes),
                                Append(RecreatedOutputs(boxes),
                                       OutputBuilder(rentAfterFee, changeAddr)),
                                RECOMMENDED_MIN_FEE_VALUE)
        IN  IF built.ok
            THEN [ ok |-> TRUE, unsignedTx |-> built.unsignedTx,
                   totalRentCollected |-> totalRentCollected ]
            ELSE built

\* transactionService.ts:41-168 (rent funds the fee).
\* spentNow: the boxes for which ergoNode.getBoxById returns null
BuildRentFundsFee(boxes, spentNow) ==
  LET totalRentCollected == TotalRent(boxes)
      totalInputValue    == SumSeq([ i \in 1..Len(boxes) |-> boxes[i].value ])
      rentAfterFee       == totalRentCollected - RECOMMENDED_MIN_FEE_VALUE
      outputs            == RecreatedOutputs(boxes)
      totalOutputValue   ==
        SumSeq([ i \in 1..Len(outputs) |-> outputs[i].value ]) + rentAfterFee
      availableForFee    == totalInputValue - totalOutputValue
  IN  IF \E i \in 1..Len(boxes) : getBoxById(boxes[i].boxId, spentNow) = << >>
        THEN BuildError("BoxNotFound")
      ELSE IF availableForFee < RECOMMENDED_MIN_FEE_VALUE
        THEN BuildError("InsufficientFee")
      ELSE IF rentAfterFee <= 0
        THEN BuildError("InsufficientRent")
      ELSE
        LET built == FleetBuild(FleetInputs(boxes),
                                Append(outputs, OutputBuilder(rentAfterFee, changeAddr)),
                                RECOMMENDED_MIN_FEE_VALUE)
        IN  IF built.ok
            THEN [ ok |-> TRUE, unsignedTx |-> built.unsignedTx,
                   totalRentCollected |-> totalRentCollected ]
            ELSE built

\* part_002:58-70: inputs taken from the EligibleBox records
PlainInputs(boxes) ==
  [ i \in 1..Len(boxes) |->
      [ boxId          |-> boxes[i].boxId,
        value          |-> boxes[i].value,
        creationHeight |-> boxes[i].creationHeight,
        marker         |-> << >> ] ]

\* part_002:140-160: wallet UTXOs in the order returned, until the
\* shortfall is covered
RECURSIVE TakeUtxos(_, _, _)
TakeUtxos(utxos, walletValue, shortfall) ==
  IF utxos = << >> THEN << >>
  ELSE LET v == walletValue + Head(utxos).value
       IN  IF v >= shortfall THEN << Head(utxos) >>
           ELSE << Head(utxos) >> \o TakeUtxos(Tail(utxos), v, shortfall)

\* part_002:40-190 (fee from wallet UTXOs).  walletUtxos: what
\* ergoNode.getWalletUtxos(changeAddress) returns
BuildFeeFromWallet(boxes, walletUtxos) ==
  LET totalRentCollected == TotalRent(boxes)
      totalInputValue    == SumSeq([ i \in 1..Len(boxes) |-> boxes[i].value ])
      outputs            == RecreatedOutputs(boxes)
      totalOutputValue   ==
        SumSeq([ i \in 1..Len(outputs) |-> outputs[i].value ]) + totalRentCollected
      availableForFee    == totalInputValue - totalOutputValue
      shortfall          == RECOMMENDED_MIN_FEE_VALUE - availableForFee
      additionalInputs   == TakeUtxos(walletUtxos, 0, shortfall)
      walletValue        ==
        SumSeq([ i \in 1..Len(additionalInputs) |-> additionalInputs[i].value ])
      allInputBoxes      ==
        IF availableForFee < RECOMMENDED_MIN_FEE_VALUE
        THEN PlainInputs(boxes) \o
             [ i \in 1..Len(additionalInputs) |->
                 [ boxId          |-> additionalInputs[i].boxId,
                   value          |-> additionalInputs[i].value,
                   creationHeight |-> additionalInputs[i].creationHeight,
                   marker         |-> << >> ] ]
        ELSE PlainInputs(boxes)
  IN  IF availableForFee < RECOMMENDED_MIN_FEE_VALUE /\ walletUtxos = << >>
        THEN BuildError("NoWalletUtxos")
      ELSE IF availableForFee < RECOMMENDED_MIN_FEE_VALUE /\ walletValue < shortfall
        THEN BuildError("InsufficientFunds")
      ELSE
        LET built == FleetBuild(allInputBoxes,
                                Append(outputs, OutputBuilder(totalRentCollected, changeAddr)),
                                RECOMMENDED_MIN_FEE_VALUE)
        IN  IF built.ok
            THEN [ ok |-> TRUE, unsignedTx |-> built.unsignedTx,
                   totalRentCollected |-> totalRentCollected ]
            ELSE built

buildStorageRentTransaction(policy, boxes, spentNow, walletUtxos) ==
  IF policy = "rent-funds-fee"
  THEN BuildRentFundsFee(boxes, spentNow)
  ELSE BuildFeeFromWallet(boxes, walletUtxos)

(***************************************************************************)
(* State.                                                                  *)
(***************************************************************************)
VARIABLES
  chainHeight,           \* node: fullHeight reported by /info
  spent,                 \* node: ids of the indexed boxes that are spent
  isRunning,             \* StorageRentBot.isRunning
  cronJob,               \* StorageRentBot.cronJob is scheduled
  lastQueueScanHeight,   \* StorageRentBot.lastQueueScanHeight
  lastSearchOffset,      \* StorageRentBot.lastSearchOffset
  queuedBoxesByHeight,   \* StorageRentBot.queuedBoxesByHeight
  cyc,                   \* the runScanAndProcess calls in flight, with their locals
  eligible_boxes,        \* store: table eligible_boxes, by box_id
  transactions,          \* store: table transactions, in insertion order
  nextTxId,              \* number of transactions the node has accepted
  handed,                \* history: how often a box id was handed to processBatch
  lastReturn,            \* history: what the last finished cycle returned
  promoted,              \* promotion on its own: the promotions applied so far
  buildIn,               \* builder on its own: arguments of buildStorageRentTransaction
  buildOut,              \* builder on its own: its result
  monitors,              \* the monitorTransactionConfirmation calls in flight
  lastPoll,              \* history: the last answer a monitor got from the node
  dryRun,                \* config.dryRun
  signed,                \* history: fromUnsigned has been called
  bot_state,             \* store: the keys of table bot_state
  callIn,                \* a function on its own: its arguments
  callOut                \* a function on its own: its result

vars == << chainHeight, spent, isRunning, cronJob,
           lastQueueScanHeight, lastSearchOffset, queuedBoxesByHeight, cyc,
           eligible_boxes, transactions, nextTxId, handed, lastReturn,
           promoted, buildIn, buildOut, monitors, lastPoll, dryRun, signed, bot_state,
           callIn, callOut >>

nodeVars  == << chainHeight, spent >>
storeVars == << eligible_boxes, transactions >>
buildVars == << promoted, buildIn, buildOut, callIn, callOut >>
monitorVars == << monitors, lastPoll >>

Cycles == 1..MaxCycles

NoRow == [ status |-> "none", txId |-> 0 ]

\* storageRentBot.ts:343-350 / 470-477
emptyResult ==
  [ processedBoxes |-> 0, successfulTransactions |-> 0, failedTransactions |-> 0,
    totalRentCollected |-> 0, totalFeesPaid |-> 0, errors |-> << >> ]

NoScan == [ offset |-> 0, nextOffset |-> 0, boxesByHeight |-> << >>,
            totalBoxesFound |-> 0, returned |-> TRUE ]

\* the locals of one runScanAndProcess call and of the calls it awaits
IdleFrame ==
  [ pc            |-> "idle",
    caller        |-> "none",
    currentHeight |-> 0,
    scan          |-> NoScan,
    nowEligible   |-> << >>,
    batches       |-> << >>,
    i             |-> 0,
    k             |-> 0,
    txId          |-> 0,
    result        |-> emptyResult ]

NoReturn == [ threw |-> FALSE, result |-> emptyResult, batches |-> << >> ]

NoPromotion == [ count |-> 0, before |-> << >>, nowEligible |-> << >>, claimable |-> 0 ]

NoBuild == [ policy |-> "none" ]

NoCall == [ of |-> "none" ]

NoPoll == [ txId |-> 0, attempt |-> 0, response |-> "none" ]

\* storageRentBot.ts:55-56: the keys initialize() writes
InitialBotState == { "initialized_at", "wallet_address" }

\* state after construction (storageRentBot.ts:12-16, 20-33)
Init ==
  /\ chainHeight = StartHeight
  /\ spent = {}
  /\ isRunning = FALSE
  /\ cronJob = FALSE
  /\ lastQueueScanHeight = 0
  /\ lastSearchOffset = 0
  /\ queuedBoxesByHeight = << >>
  /\ cyc = [ c \in Cycles |-> IdleFrame ]
  /\ eligible_boxes = [ id \in BoxIds |-> NoRow ]
  /\ transactions = << >>
  /\ nextTxId = 0
  /\ handed = [ id \in BoxIds |-> 0 ]
  /\ lastReturn = NoReturn
  /\ promoted = NoPromotion
  /\ buildIn = NoBuild
  /\ buildOut = NoBuild
  /\ monitors = {}
  /\ lastPoll = NoPoll
  /\ dryRun \in BOOLEAN
  /\ signed = FALSE
  /\ bot_state = InitialBotState
  /\ callIn = NoCall
  /\ callOut = NoCall

(***************************************************************************)
(* Environment: the chain grows.                                           *)
(***************************************************************************)
NewBlock ==
  /\ chainHeight < MaxHeight
  /\ chainHeight' = chainHeight + 1
  /\ UNCHANGED << spent, isRunning, cronJob, lastQueueScanHeight,
                  lastSearchOffset, queuedBoxesByHeight, cyc, storeVars,
                  nextTxId, handed, lastReturn, buildVars,
                  monitorVars, dryRun, signed, bot_state >>

(***************************************************************************)
(* The main cycle: StorageRentBot.start, the cron callback and             *)
(* runScanAndProcess with the calls it awaits.                             *)
(***************************************************************************)
Occurrences(seq, x) == Cardinality({ i \in 1..Len(seq) : seq[i] = x })

\* history of processBatch(batch, ...) calls, counted per box id up to 2
HandTo(h, batch) ==
  LET ids == [ i \in 1..Len(batch) |-> batch[i].boxId ]
  IN  [ id \in BoxIds |-> Min(2, h[id] + Occurrences(ids, id)) ]

\* cycle c goes on with frame f
Continue(c, f) ==
  /\ cyc' = [cyc EXCEPT ![c] = f]
  /\ UNCHANGED << cronJob, lastReturn >>

\* storageRentBot.ts:298 / 327: runScanAndProcess returns f.result; when
\* start() awaited it, the cron job is set up (storageRentBot.ts:93-96,
\* 129-155)
Finish(c, f) ==
  /\ cyc' = [cyc EXCEPT ![c] = IdleFrame]
  /\ lastReturn' = [ threw |-> FALSE, result |-> f.result, batches |-> f.batches ]
  /\ cronJob' = IF f.caller = "start" THEN TRUE ELSE cronJob

\* storageRentBot.ts:635-650: the balance is stored unless the node's
\* answer fails, which is caught
updateWalletBalance(state, balanceOk) ==
  IF balanceOk THEN state \cup { "wallet_balance" } ELSE state

\* storageRentBot.ts:653-665
updateMetrics(state) == state \cup { "last_metrics_update" }

\* storageRentBot.ts:193-304: the promotion step of cycle c, run in the
\* same callback as the code before it; f is the frame so far, queue the
\* queue so far, state the keys of bot_state so far.  Without claimable
\* boxes the call returns emptyResult; with them the wallet balance is
\* updated before the boxes are processed.
PromoteStep(c, f, queue, state) ==
  LET p == Promote(queue, f.currentHeight, minStorageRentAgeBlocks)
  IN  /\ queuedBoxesByHeight' = p.queue
      /\ IF p.nowEligible = << >>
         THEN /\ Finish(c, [f EXCEPT !.result = emptyResult])
              /\ bot_state' = state
         ELSE /\ Continue(c, [f EXCEPT !.pc = "insert", !.nowEligible = p.nowEligible, !.k = 0])
              /\ \E balanceOk \in BOOLEAN :
                   bot_state' = updateWalletBalance(state, balanceOk)

\* storageRentBot.ts:162-176: the height arrives; either the scan is
\* started with the cursor as it is now, or the promotion step runs
GetHeight(c, f0, state) ==
  LET f == [f0 EXCEPT !.currentHeight = chainHeight]
  IN  IF shouldScanQueue(chainHeight, lastQueueScanHeight)
      THEN /\ Continue(c, [f EXCEPT !.pc = "scan", !.scan = ScanStart(lastSearchOffset)])
           /\ bot_state' = state
           /\ UNCHANGED queuedBoxesByHeight
      ELSE PromoteStep(c, f, queuedBoxesByHeight, state)

\* ergoNode.ts:39-46, storageRentBot.ts:162, 329-337: the request for the
\* height fails, getCurrentHeight throws and runScanAndProcess rethrows to
\* its caller
HeightFails(state) ==
  /\ lastReturn' = [NoReturn EXCEPT !.threw = TRUE]
  /\ bot_state' = state
  /\ UNCHANGED << cyc, cronJob, queuedBoxesByHeight >>

\* storageRentBot.ts:73-108: start() sets isRunning, writes its bot-state
\* keys and awaits the first cycle, which begins by reading the height;
\* when the cycle throws, start() resets isRunning and rethrows
Start ==
  /\ ~isRunning
  /\ ~cronJob
  /\ cyc[1].pc = "idle"
  /\ \E heightOk \in BOOLEAN :
       LET state == bot_state \cup { "status", "started_at" }
       IN  IF heightOk
           THEN /\ isRunning' = TRUE
                /\ GetHeight(1, [IdleFrame EXCEPT !.caller = "start"], state)
           ELSE /\ isRunning' = FALSE
                /\ HeightFails(state)
  /\ UNCHANGED << nodeVars, lastQueueScanHeight, lastSearchOffset,
                  storeVars, nextTxId, handed, buildVars,
                  monitorVars, dryRun, signed >>

\* storageRentBot.ts:134-145: the cron callback; its only condition is
\* isRunning.  The call takes the lowest free frame.
CronTick(c) ==
  /\ cronJob
  /\ isRunning
  /\ cyc[c].pc = "idle"
  /\ \A d \in Cycles : d < c => cyc[d].pc # "idle"
  /\ \E heightOk \in BOOLEAN :
       IF heightOk
       THEN GetHeight(c, [IdleFrame EXCEPT !.caller = "cron"], bot_state)
       ELSE HeightFails(bot_state)
  /\ UNCHANGED << nodeVars, isRunning, lastQueueScanHeight, lastSearchOffset,
                  storeVars, nextTxId, handed, buildVars,
                  monitorVars, dryRun, signed >>

\* ergoNode.ts:197-318 and storageRentBot.ts:178-220: one page of the scan.
\* When the scan returns, its result is merged, the cursor and the scan
\* height are stored and the promotion step runs.
ScanPage(c) ==
  /\ cyc[c].pc = "scan"
  /\ \E pageOk \in BOOLEAN :
       /\ ~pageOk => cyc[c].scan.offset - batchSize >= -MaxUnderrun
       /\ LET st == IF pageOk
                    THEN ScanPageOk(cyc[c].scan, cyc[c].currentHeight,
                                    minStorageRentAgeBlocks, spent, {})
                    ELSE ScanPageFailed(cyc[c].scan)
              f  == [cyc[c] EXCEPT !.scan = st]
          IN  IF st.returned \/ st.totalBoxesFound >= targetBoxCount
              THEN /\ lastQueueScanHeight' = f.currentHeight
                   /\ lastSearchOffset' = st.nextOffset
                   /\ PromoteStep(c, [f EXCEPT !.scan = NoScan],
                                  MergeIntoQueue(queuedBoxesByHeight, st.boxesByHeight),
                                  bot_state)
              ELSE /\ Continue(c, f)
                   /\ UNCHANGED << lastQueueScanHeight, lastSearchOffset,
                                   queuedBoxesByHeight, bot_state >>
  /\ UNCHANGED << nodeVars, isRunning, storeVars, nextTxId, handed, buildVars,
                  monitorVars, dryRun, signed >>

\* database/index.ts:76-109: INSERT OR REPLACE of the box's row
insertEligibleBox(table, box) ==
  [table EXCEPT ![box.boxId] = [ status |-> box.status, txId |-> 0 ]]

\* database/index.ts:148-167: UPDATE ... WHERE box_id = ?
updateBoxStatus(table, boxId, status, txId) ==
  IF table[boxId] = NoRow THEN table
  ELSE [table EXCEPT ![boxId] = [ status |-> status, txId |-> txId ]]

BoxIdsOf(boxes) == [ i \in 1..Len(boxes) |-> boxes[i].boxId ]

\* storageRentBot.ts:364-414: one box is saved; after the last one the
\* boxes are validated, split into batches and the first batch is handed to
\* processBatch
InsertBox(c) ==
  /\ cyc[c].pc = "insert"
  /\ LET f   == cyc[c]
         box == f.nowEligible[f.k + 1]
     IN  /\ eligible_boxes' = insertEligibleBox(eligible_boxes, box)
         /\ IF f.k + 1 < Len(f.nowEligible)
            THEN /\ Continue(c, [f EXCEPT !.k = f.k + 1])
                 /\ UNCHANGED handed
            ELSE LET validation == validateBoxes(BoxIdsOf(f.nowEligible))
                     validBoxes == SelectSeq(f.nowEligible,
                                             LAMBDA b : b.boxId \in Range(validation.valid))
                     batches    == createTransactionBatches(validBoxes)
                 IN  /\ Continue(c, [f EXCEPT !.pc = "batch", !.batches = batches,
                                              !.i = 0, !.k = 0, !.txId = 0,
                                              !.result = emptyResult])
                     /\ handed' = HandTo(handed, batches[1])
  /\ UNCHANGED << nodeVars, isRunning, lastQueueScanHeight, lastSearchOffset,
                  queuedBoxesByHeight, transactions, nextTxId, buildVars,
                  monitorVars, dryRun, signed, bot_state >>

\* the cycle's result taken from the last batch alone
AddResult_lastOnly(f, r) == [f EXCEPT !.result = r]
\* storageRentBot.ts:416-421: the batch's result is added to the cycle's
AddResult(f, r) ==
  [f EXCEPT
     !.result = [ processedBoxes         |-> @.processedBoxes + r.processedBoxes,
                  successfulTransactions |-> @.successfulTransactions + r.successfulTransactions,
                  failedTransactions     |-> @.failedTransactions + r.failedTransactions,
                  totalRentCollected     |-> @.totalRentCollected + r.totalRentCollected,
                  totalFeesPaid          |-> @.totalFeesPaid + r.totalFeesPaid,
                  errors                 |-> @.errors \o r.errors ]]

\* the next batch begun as soon as the batch before it has returned
AfterBatch_noDelay(c, f, r) ==
  IF f.i < Len(f.batches) - 1
  THEN /\ Continue(c, [AddResult(f, r) EXCEPT !.pc = "batch", !.i = f.i + 1,
                                                !.k = 0, !.txId = 0])
       /\ UNCHANGED bot_state
  ELSE /\ Finish(c, AddResult(f, r))
       /\ bot_state' = updateMetrics(bot_state)
\* storageRentBot.ts:423-426, 446-453, 309-327: a delay follows every batch
\* but the last; after the last one the metrics are updated and the cycle
\* returns its result
AfterBatch(c, f, r) ==
  IF f.i < Len(f.batches) - 1
  THEN /\ Continue(c, [AddResult(f, r) EXCEPT !.pc = "delay"])
       /\ UNCHANGED bot_state
  ELSE /\ Finish(c, AddResult(f, r))
       /\ bot_state' = updateMetrics(bot_state)

\* storageRentBot.ts:573-584: processBatch catches the failure and returns
FailedBatch(batchIndex) ==
  [emptyResult EXCEPT !.failedTransactions = 1, !.errors = << batchIndex >>]

\* storageRentBot.ts:514-517, 555-559
SubmittedBatch(boxes) ==
  [emptyResult EXCEPT !.processedBoxes = Len(boxes),
                      !.successfulTransactions = 1,
                      !.totalRentCollected = TotalRent(boxes),
                      !.totalFeesPaid = transactionFee]

\* the node accepts a transaction only if its inputs are distinct unspent boxes
NodeAccepts(unsignedTx, spentNow) ==
  /\ \A i \in 1..Len(unsignedTx.inputs) : unsignedTx.inputs[i].boxId \notin spentNow
  /\ \A i, j \in 1..Len(unsignedTx.inputs) :
       unsignedTx.inputs[i].boxId = unsignedTx.inputs[j].boxId => i = j

AfterBuild_alwaysSubmits(dry) == "submit"

\* storageRentBot.ts:506: with dryRun the valid transaction is only
\* reported, without it the transaction is signed and sent
AfterBuild(dry) == IF dry THEN "report" ELSE "submit"

\* storageRentBot.ts:487-526, 573-584: build, validate, then report (dry
\* run) or sign and broadcast one batch.  The batch fails when the height
\* request or the build fails, and when TransactionService.fromUnsigned
\* (transactionService.ts:171-189) returns a null txId because signing or
\* sending failed.
BuildAndSubmit(c) ==
  /\ cyc[c].pc = "batch"
  /\ LET f     == cyc[c]
         boxes == f.batches[f.i + 1]
         built == buildStorageRentTransaction("rent-funds-fee", boxes, spent, << >>)
     IN  \E outcome \in { "failed", "reported", "rejected", "accepted" } :
           /\ outcome # "failed" => built.ok
           /\ outcome = "reported" => AfterBuild(dryRun) = "report"
           /\ outcome \in { "rejected", "accepted" } => AfterBuild(dryRun) = "submit"
           /\ outcome = "accepted" => NodeAccepts(built.unsignedTx, spent)
           /\ signed' = (signed \/ outcome \in { "rejected", "accepted" })
           /\ CASE outcome = "accepted" ->
                    /\ nextTxId' = nextTxId + 1
                    /\ spent' = spent \cup Range(BoxIdsOf(boxes))
                    /\ Continue(c, [f EXCEPT !.pc = "record", !.txId = nextTxId + 1])
                    /\ UNCHANGED bot_state
                [] outcome = "reported" ->
                    /\ AfterBatch(c, f, SubmittedBatch(boxes))
                    /\ UNCHANGED << nextTxId, spent >>
                [] OTHER ->
                    /\ AfterBatch(c, f, FailedBatch(f.i + 1))
                    /\ UNCHANGED << nextTxId, spent >>
  /\ UNCHANGED << chainHeight, isRunning, lastQueueScanHeight,
                  lastSearchOffset, queuedBoxesByHeight, storeVars, handed,
                  buildVars, monitorVars, dryRun >>

\* database/index.ts:201-226: INSERT OR REPLACE of the transaction's row
insertTransaction(table, tx) ==
  SelectSeq(table, LAMBDA t : t.txId # tx.txId) \o << tx >>

\* storageRentBot.ts:528-539
InsertTransaction(c) ==
  /\ cyc[c].pc = "record"
  /\ LET f     == cyc[c]
         boxes == f.batches[f.i + 1]
     IN  /\ transactions' = insertTransaction(transactions,
              [ txId               |-> f.txId,
                boxIds             |-> BoxIdsOf(boxes),
                totalRentCollected |-> TotalRent(boxes),
                transactionFee     |-> transactionFee,
                status             |-> "pending" ])
         /\ Continue(c, [f EXCEPT !.pc = "mark", !.k = 0])
  /\ UNCHANGED << nodeVars, isRunning, lastQueueScanHeight, lastSearchOffset,
                  queuedBoxesByHeight, eligible_boxes, nextTxId, handed,
                  buildVars,
                  monitorVars, dryRun, signed, bot_state >>

\* the loop counting from 0
StartMonitor_atZero(txId) == [ txId |-> txId, attempt |-> 0 ]

\* storageRentBot.ts:561, 592: a monitor starts with its first attempt
StartMonitor(txId) == [ txId |-> txId, attempt |-> 1 ]

\* storageRentBot.ts:541-571: one box of the submitted batch is marked
\* claimed; after the last one the monitor of the transaction is started
\* and processBatch returns its result
UpdateBoxStatus(c) ==
  /\ cyc[c].pc = "mark"
  /\ LET f     == cyc[c]
         boxes == f.batches[f.i + 1]
         boxId == boxes[f.k + 1].boxId
         table == updateBoxStatus(eligible_boxes, boxId, "claimed", f.txId)
     IN  /\ eligible_boxes' = table
         /\ IF f.k + 1 < Len(boxes)
            THEN /\ Continue(c, [f EXCEPT !.k = f.k + 1])
                 /\ UNCHANGED << monitors, bot_state >>
            ELSE /\ AfterBatch(c, f, SubmittedBatch(boxes))
                 /\ monitors' = monitors \cup { StartMonitor(f.txId) }
  /\ UNCHANGED << nodeVars, isRunning, lastQueueScanHeight, lastSearchOffset,
                  queuedBoxesByHeight, transactions, nextTxId, handed, buildVars,
                  lastPoll, dryRun, signed >>

\* storageRentBot.ts:406-426: the inter-batch delay is over, the next
\* batch is handed to processBatch
DelayElapsed(c) ==
  /\ cyc[c].pc = "delay"
  /\ LET f == cyc[c]
     IN  /\ Continue(c, [f EXCEPT !.pc = "batch", !.i = f.i + 1, !.k = 0, !.txId = 0])
         /\ handed' = HandTo(handed, f.batches[f.i + 2])
  /\ UNCHANGED << nodeVars, isRunning, lastQueueScanHeight, lastSearchOffset,
                  queuedBoxesByHeight, storeVars, nextTxId, buildVars,
                  monitorVars, dryRun, signed, bot_state >>

(***************************************************************************)
(* The confirmation monitor of one submitted transaction.                  *)
(***************************************************************************)
\* what GET /transactions/{txId} may answer
TransactionResponses == { "confirmed", "unconfirmed", "notFound", "failure" }

\* ergoNode.ts:386-396: true with confirmations, false without them or on
\* 404, an exception otherwise
isTransactionConfirmed(response) ==
  CASE response = "confirmed"   -> [ threw |-> FALSE, value |-> TRUE ]
    [] response = "unconfirmed" -> [ threw |-> FALSE, value |-> FALSE ]
    [] response = "notFound"    -> [ threw |-> FALSE, value |-> FALSE ]
    [] OTHER                    -> [ threw |-> TRUE,  value |-> FALSE ]

\* the UPDATE without its WHERE clause
updateTransactionStatus_allRows(table, txId, status) ==
  [ i \in 1..Len(table) |-> [table[i] EXCEPT !.status = status] ]
\* database/index.ts:258-270: UPDATE transactions SET status WHERE tx_id
updateTransactionStatus(table, txId, status) ==
  [ i \in 1..Len(table) |->
      IF table[i].txId = txId THEN [table[i] EXCEPT !.status = status] ELSE table[i] ]

AfterAttempt_stopsEarly(attempt, isConfirmed) ==
  IF ~isConfirmed.threw /\ isConfirmed.value
  THEN [ status |-> "confirmed", returned |-> TRUE ]
  ELSE IF attempt + 1 < maxAttempts
       THEN [ status |-> "unchanged", returned |-> FALSE ]
       ELSE [ status |-> "failed", returned |-> TRUE ]

\* storageRentBot.ts:592-631: what the loop does with the answer of one
\* attempt; a failed lookup is caught and counts as an attempt
AfterAttempt(attempt, isConfirmed) ==
  IF ~isConfirmed.threw /\ isConfirmed.value
  THEN [ status |-> "confirmed", returned |-> TRUE ]
  ELSE IF attempt < maxAttempts
       THEN [ status |-> "unchanged", returned |-> FALSE ]
       ELSE [ status |-> "failed", returned |-> TRUE ]

\* storageRentBot.ts:588-632: the check interval of one monitor is over and
\* the node answers its lookup
PollConfirmation ==
  /\ \E m \in monitors, response \in TransactionResponses :
       LET a == AfterAttempt(m.attempt, isTransactionConfirmed(response))
       IN  /\ transactions' = IF a.status = "unchanged" THEN transactions
                               ELSE updateTransactionStatus(transactions, m.txId, a.status)
           /\ monitors' = (monitors \ {m}) \cup
                             (IF a.returned THEN {} ELSE { [m EXCEPT !.attempt = @ + 1] })
           /\ lastPoll' = [ txId |-> m.txId, attempt |-> m.attempt, response |-> response ]
  /\ UNCHANGED << nodeVars, isRunning, cronJob, lastQueueScanHeight, lastSearchOffset,
                  queuedBoxesByHeight, cyc, eligible_boxes, nextTxId, handed,
                  lastReturn, buildVars, dryRun, signed, bot_state >>

Next ==
  \/ NewBlock
  \/ Start
  \/ \E c \in Cycles : CronTick(c)
  \/ \E c \in Cycles : ScanPage(c)
  \/ \E c \in Cycles : InsertBox(c)
  \/ \E c \in Cycles : BuildAndSubmit(c)
  \/ \E c \in Cycles : InsertTransaction(c)
  \/ \E c \in Cycles : UpdateBoxStatus(c)
  \/ \E c \in Cycles : DelayElapsed(c)

\* The cycle never reads the status of a transaction and a monitor writes
\* nothing else, so the monitors are run in SpecMonitor, next to the part of
\* the cycle that starts them.
Spec == Init /\ [][Next]_vars

(***************************************************************************)
(* Batch builder on its own: buildStorageRentTransaction applied to        *)
(* batches, node answers and wallet holdings drawn from bounded sets.      *)
(***************************************************************************)
\* the boxes of the index the scanner would accept by value
AcceptableBoxes ==
  { MakeEligibleBox(BoxIndex[p], StartHeight, minStorageRentAgeBlocks) :
      p \in { q \in 1..Len(BoxIndex) : hasSufficientValue(BoxIndex[q]) } }

\* batches of one to maxBoxesPerTx distinct boxes
BatchInputs ==
  UNION { { b \in [1..n -> AcceptableBoxes] :
              \A i, j \in 1..n : b[i].boxId = b[j].boxId => i = j } :
          n \in 1..maxBoxesPerTx }

\* what getWalletUtxos may return
WalletInputs ==
  { << >>,
    << [boxId |-> "w1", value |-> 1, creationHeight |-> 1] >>,
    << [boxId |-> "w2", value |-> 3, creationHeight |-> 5] >>,
    << [boxId |-> "w1", value |-> 1, creationHeight |-> 1],
       [boxId |-> "w2", value |-> 3, creationHeight |-> 5] >> }

\* boxes the node no longer has: none, or one box
MissingInputs == { {} } \cup { {id} : id \in {"b0", "b4"} }

InitBuild ==
  /\ chainHeight = StartHeight
  /\ spent = {}
  /\ isRunning = FALSE
  /\ cronJob = FALSE
  /\ lastQueueScanHeight = 0
  /\ lastSearchOffset = 0
  /\ queuedBoxesByHeight = << >>
  /\ cyc = [ c \in Cycles |-> IdleFrame ]
  /\ eligible_boxes = [ id \in BoxIds |-> NoRow ]
  /\ transactions = << >>
  /\ nextTxId = 0
  /\ handed = [ id \in BoxIds |-> 0 ]
  /\ lastReturn = NoReturn
  /\ promoted = NoPromotion
  /\ buildIn \in [ policy      : {"rent-funds-fee", "fee-from-wallet-utxos"},
                   boxes       : BatchInputs,
                   spentNow    : MissingInputs,
                   walletUtxos : WalletInputs ]
  /\ buildOut = NoBuild
  /\ monitors = {}
  /\ lastPoll = NoPoll
  /\ dryRun = FALSE
  /\ signed = FALSE
  /\ bot_state = InitialBotState
  /\ callIn = NoCall
  /\ callOut = NoCall

Build ==
  /\ buildOut = NoBuild
  /\ buildOut' = buildStorageRentTransaction(buildIn.policy, buildIn.boxes,
                                             buildIn.spentNow, buildIn.walletUtxos)
  /\ UNCHANGED << nodeVars, isRunning, cronJob, lastQueueScanHeight, lastSearchOffset,
                  queuedBoxesByHeight, cyc, storeVars, nextTxId, handed,
                  lastReturn, promoted, buildIn,
                  monitorVars, dryRun, signed, bot_state, callIn, callOut >>

NextBuild == Build

SpecBuild == InitBuild /\ [][NextBuild]_vars

(***************************************************************************)
(* The promotion step on its own: storageRentBot.ts:193-220 applied, and   *)
(* applied again at the same height, to queues and heights drawn from      *)
(* bounded sets.                                                           *)
(***************************************************************************)
\* the creation heights of the index
IndexHeights == { BoxIndex[p].creationHeight : p \in 1..Len(BoxIndex) }

\* the bucket the scanner builds for one creation height
BucketOf(h, currentHeight) ==
  LET boxes == SelectSeq(BoxIndex, LAMBDA b : b.creationHeight = h)
  IN  [ height |-> h,
        boxes  |-> [ i \in 1..Len(boxes) |->
                       MakeEligibleBox(boxes[i], currentHeight, minStorageRentAgeBlocks) ] ]

\* queues with distinct bucket heights, in any insertion order
QueueInputs(currentHeight) ==
  UNION { { [ i \in 1..n |-> BucketOf(hs[i], currentHeight) ] :
              hs \in { f \in [1..n -> IndexHeights] :
                         \A i, j \in 1..n : f[i] = f[j] => i = j } } :
          n \in 0..Cardinality(IndexHeights) }

InitQueue ==
  /\ chainHeight \in StartHeight..MaxHeight
  /\ spent = {}
  /\ isRunning = FALSE
  /\ cronJob = FALSE
  /\ lastQueueScanHeight = 0
  /\ lastSearchOffset = 0
  /\ queuedBoxesByHeight \in QueueInputs(chainHeight)
  /\ cyc = [ c \in Cycles |-> IdleFrame ]
  /\ eligible_boxes = [ id \in BoxIds |-> NoRow ]
  /\ transactions = << >>
  /\ nextTxId = 0
  /\ handed = [ id \in BoxIds |-> 0 ]
  /\ lastReturn = NoReturn
  /\ promoted = NoPromotion
  /\ buildIn = NoBuild
  /\ buildOut = NoBuild
  /\ monitors = {}
  /\ lastPoll = NoPoll
  /\ dryRun = FALSE
  /\ signed = FALSE
  /\ bot_state = InitialBotState
  /\ callIn = NoCall
  /\ callOut = NoCall

\* storageRentBot.ts:193-220 at the chain's height
PromoteQueue ==
  /\ promoted.count < 2
  /\ LET p == Promote(queuedBoxesByHeight, chainHeight, minStorageRentAgeBlocks)
     IN  /\ queuedBoxesByHeight' = p.queue
         /\ promoted' = [ count       |-> promoted.count + 1,
                          before      |-> queuedBoxesByHeight,
                          nowEligible |-> p.nowEligible,
                          claimable   |-> promoted.claimable + Len(p.nowEligible) ]
  /\ UNCHANGED << nodeVars, isRunning, cronJob, lastQueueScanHeight, lastSearchOffset,
                  cyc, storeVars, nextTxId, handed, lastReturn,
                  buildIn, buildOut, monitorVars, dryRun, signed, bot_state,
                  callIn, callOut >>

NextQueue == PromoteQueue

SpecQueue == InitQueue /\ [][NextQueue]_vars

(***************************************************************************)
(* Submission and confirmation: processEligibleBoxes from its first        *)
(* processBatch call on (storageRentBot.ts:406-426), with the monitors it  *)
(* starts.  The claimable boxes are drawn from bounded sets, with and      *)
(* without dryRun.                                                         *)
(***************************************************************************)
MaxClaimable == 3

\* lists of one to MaxClaimable distinct boxes
ClaimableInputs ==
  UNION { { b \in [1..n -> AcceptableBoxes] :
              \A i, j \in 1..n : b[i].boxId = b[j].boxId => i = j } :
          n \in 1..MaxClaimable }

\* what others may have spent since the boxes were promoted: nothing, or
\* one of the boxes
SpentInputs(boxes) ==
  { {} } \cup { { boxes[i].boxId } : i \in 1..Len(boxes) }

RECURSIVE InsertAll(_, _)
InsertAll(table, boxes) ==
  IF boxes = << >> THEN table
  ELSE InsertAll(insertEligibleBox(table, Head(boxes)), Tail(boxes))

InitMonitor ==
  \E boxes \in ClaimableInputs :
    LET batches == createTransactionBatches(boxes)
    IN  /\ chainHeight = StartHeight
        /\ spent \in SpentInputs(boxes)
        /\ isRunning = TRUE
        /\ cronJob = TRUE
        /\ lastQueueScanHeight = StartHeight
        /\ lastSearchOffset = 0
        /\ queuedBoxesByHeight = << >>
        /\ cyc = [ c \in Cycles |->
                     IF c = 1
                     THEN [IdleFrame EXCEPT !.pc = "batch", !.caller = "cron",
                                            !.currentHeight = StartHeight,
                                            !.nowEligible = boxes,
                                            !.batches = batches]
                     ELSE IdleFrame ]
        /\ eligible_boxes = InsertAll([ id \in BoxIds |-> NoRow ], boxes)
        /\ transactions = << >>
        /\ nextTxId = 0
        /\ handed = HandTo([ id \in BoxIds |-> 0 ], batches[1])
        /\ lastReturn = NoReturn
        /\ promoted = NoPromotion
        /\ buildIn = NoBuild
        /\ buildOut = NoBuild
        /\ monitors = {}
        /\ lastPoll = NoPoll
        /\ dryRun \in BOOLEAN
        /\ signed = FALSE
        /\ bot_state = InitialBotState \cup { "status", "started_at" }
        /\ callIn = NoCall
        /\ callOut = NoCall

NextMonitor ==
  \/ \E c \in Cycles : BuildAndSubmit(c)
  \/ \E c \in Cycles : InsertTransaction(c)
  \/ \E c \in Cycles : UpdateBoxStatus(c)
  \/ \E c \in Cycles : DelayElapsed(c)
  \/ PollConfirmation

SpecMonitor == InitMonitor /\ [][NextMonitor]_vars

(***************************************************************************)
(* createTransactionBatches on its own (transactionService.ts:29-38),      *)
(* applied to lists of boxes and values of config.maxBoxesPerTx drawn from *)
(* bounded sets; a list may hold a box twice.                              *)
(***************************************************************************)
MaxListLen == 4

\* database/index.ts:584 accepts 1..100 for maxBoxesPerTx
MaxBatchSize == 3

BoxLists == UNION { [1..n -> AcceptableBoxes] : n \in 0..MaxListLen }

\* every variable but callIn and callOut, as constructed
IdleBot ==
  /\ chainHeight = StartHeight
  /\ spent = {}
  /\ isRunning = FALSE
  /\ cronJob = FALSE
  /\ lastQueueScanHeight = 0
  /\ lastSearchOffset = 0
  /\ queuedBoxesByHeight = << >>
  /\ cyc = [ c \in Cycles |-> IdleFrame ]
  /\ eligible_boxes = [ id \in BoxIds |-> NoRow ]
  /\ transactions = << >>
  /\ nextTxId = 0
  /\ handed = [ id \in BoxIds |-> 0 ]
  /\ lastReturn = NoReturn
  /\ promoted = NoPromotion
  /\ buildIn = NoBuild
  /\ buildOut = NoBuild
  /\ monitors = {}
  /\ lastPoll = NoPoll
  /\ dryRun = FALSE
  /\ signed = FALSE
  /\ bot_state = InitialBotState

InitBatches ==
  /\ IdleBot
  /\ callIn \in [ of : {"createTransactionBatches"}, boxes : BoxLists,
                   maxBoxesPerTx : 1..MaxBatchSize ]
  /\ callOut = NoCall

CreateBatches ==
  /\ callIn.of = "createTransactionBatches"
  /\ callOut = NoCall
  /\ callOut' = [ of      |-> callIn.of,
                  batches |-> BatchesFrom(callIn.boxes, 0, callIn.maxBoxesPerTx) ]
  /\ UNCHANGED << nodeVars, isRunning, cronJob, lastQueueScanHeight, lastSearchOffset,
                  queuedBoxesByHeight, cyc, storeVars, nextTxId, handed,
                  lastReturn, promoted, buildIn, buildOut, monitorVars, dryRun, signed,
                  bot_state, callIn >>

NextBatches == CreateBatches

SpecBatches == InitBatches /\ [][NextBatches]_vars

(***************************************************************************)
(* The scanner's decision for one box on its own (ergoNode.ts:229-302),    *)
(* applied to boxes and rates drawn from bounded sets that hold the        *)
(* configured defaults and small values around every threshold.            *)
(***************************************************************************)
MaxSmallValue == 7

CheckSizes == { 1, 2, 105 }

CheckValues ==
  (0..MaxSmallValue) \cup { 209, 210, 131250104, 131250105, 37904, 37905,
                            131287799, 131287800, 500000000 }

\* creation heights: past the rent age, last block of the look-ahead
\* window, first block beyond it
CheckHeights ==
  { StartHeight - minStorageRentAgeBlocks - 1,
    StartHeight - minStorageRentAgeBlocks + LookAhead,
    StartHeight - minStorageRentAgeBlocks + LookAhead + 1 }

InitCheck ==
  /\ IdleBot
  /\ callIn \in [ of                 : {"checkBox"},
                   spent              : BOOLEAN,
                   creationHeight     : CheckHeights,
                   boxSize            : CheckSizes,
                   value              : CheckValues,
                   rentFeePerByte     : {1, 1250000},
                   minBoxValuePerByte : {1, 360} ]
  /\ callOut = NoCall

Check ==
  /\ callIn.of = "checkBox"
  /\ callOut = NoCall
  /\ callOut' = [ of       |-> callIn.of,
                  decision |-> CheckBox(callIn, StartHeight, minStorageRentAgeBlocks,
                                        callIn.rentFeePerByte,
                                        callIn.minBoxValuePerByte) ]
  /\ UNCHANGED << nodeVars, isRunning, cronJob, lastQueueScanHeight, lastSearchOffset,
                  queuedBoxesByHeight, cyc, storeVars, nextTxId, handed,
                  lastReturn, promoted, buildIn, buildOut, monitorVars, dryRun, signed,
                  bot_state, callIn >>

NextCheck == Check

SpecCheck == InitCheck /\ [][NextCheck]_vars

(***************************************************************************)
(* One call of scanForEligibleBoxes on its own (ergoNode.ts:177-340), page *)
(* request by page request, with its arguments and the node's answers      *)
(* drawn from bounded sets: a page request is answered or fails, the fetch *)
(* of a box id of the page succeeds or fails, and boxes may be spent.      *)
(***************************************************************************)
\* page requests of one call the model follows
MaxRequests == 4

\* values of the cursor: below the index, inside it, 0 (no cursor yet) and
\* beyond its end
ScanOffsets == (0 - batchSize)..(Len(BoxIndex) + 1)

\* chain heights of a call: from heights at which the newest boxes of the
\* index are beyond the look-ahead window
ScanHeights == (StartHeight - LookAhead)..MaxHeight

\* what the node reports spent: nothing, or one box
SpentReports == { {} } \cup { { id } : id \in BoxIds }

\* the ids of the page a call is about to request whose fetch fails: none,
\* or one of them
FetchFailures(st) ==
  { {} } \cup { { id } : id \in Range(BoxRange(st.offset, batchSize)) }

\* ergoNode.ts:197: the while loop is over
ScanIsOver(st) == st.returned \/ st.totalBoxesFound >= targetBoxCount

InitScan ==
  /\ IdleBot
  /\ callIn \in [ of            : {"scanForEligibleBoxes"},
                   currentHeight : ScanHeights,
                   startOffset   : ScanOffsets,
                   spentNow      : SpentReports ]
  /\ callOut = [ of       |-> "scanForEligibleBoxes",
                 st       |-> ScanStart(callIn.startOffset),
                 requests |-> 0,
                 failed   |-> {},
                 lastPage |-> "none" ]

\* ergoNode.ts:197-318: one iteration of the while loop
ScanRequest ==
  /\ callIn.of = "scanForEligibleBoxes"
  /\ ~ScanIsOver(callOut.st)
  /\ callOut.requests < MaxRequests
  /\ \E pageOk \in BOOLEAN :
       \E failing \in FetchFailures(callOut.st) :
         /\ ~pageOk => failing = {}
         /\ callOut' =
              [ of       |-> callOut.of,
                st       |-> IF pageOk
                             THEN ScanPageOk(callOut.st, callIn.currentHeight,
                                             minStorageRentAgeBlocks, callIn.spentNow,
                                             failing)
                             ELSE ScanPageFailed(callOut.st),
                requests |-> callOut.requests + 1,
                failed   |-> callOut.failed \cup failing,
                lastPage |-> IF pageOk THEN "answered" ELSE "failed" ]
  /\ UNCHANGED << nodeVars, isRunning, cronJob, lastQueueScanHeight, lastSearchOffset,
                  queuedBoxesByHeight, cyc, storeVars, nextTxId, handed,
                  lastReturn, promoted, buildIn, buildOut, monitorVars, dryRun, signed,
                  bot_state, callIn >>

NextScan == ScanRequest

SpecScan == InitScan /\ [][NextScan]_vars

(***************************************************************************)
(* Properties.                                                             *)
(***************************************************************************)
InFlight(c) == cyc[c].pc # "idle"

QueuedIds == MapBoxIds(queuedBoxesByHeight)

\* C1: no box id is handed to processBatch more than once, in one batch,
\* in two batches of a cycle or in batches of different cycles.
C1_NoBoxInTwoBatches == \A id \in BoxIds : handed[id] <= 1

\* C2: every box id occurs at most once across the buckets of the queue,
\* and no box whose stored status is claimed or error is in the queue.
C2_QueueHasNoDuplicates ==
  /\ \A i, j \in 1..Len(QueuedIds) : QueuedIds[i] = QueuedIds[j] => i = j
  /\ \A i \in 1..Len(QueuedIds) :
       eligible_boxes[QueuedIds[i]].status \notin {"claimed", "error"}

\* C3: a scan started from the nextOffset of a previous scan over the same
\* index returns no box id the previous scan returned.
C3_ChainedScanEmitsNothingTwice ==
  LET first  == scanForEligibleBoxes(chainHeight, minStorageRentAgeBlocks,
                                     lastSearchOffset, spent)
      second == scanForEligibleBoxes(chainHeight, minStorageRentAgeBlocks,
                                     first.nextOffset, spent)
  IN  Range(MapBoxIds(first.boxesByHeight)) \cap Range(MapBoxIds(second.boxesByHeight)) = {}

\* C4: a promotion step run at height H promotes exactly the buckets with
\* H > h + minAge: every promoted box has creationHeight + minAge < H, every
\* bucket left in the queue has H <= h + minAge, and every bucket of the
\* queue is promoted whole or left as it was.
C4_PromotionIsStrict ==
  promoted.count = 1 =>
    /\ \A i \in 1..Len(promoted.nowEligible) :
         chainHeight > promoted.nowEligible[i].creationHeight + minStorageRentAgeBlocks
    /\ \A n \in 1..Len(queuedBoxesByHeight) :
         chainHeight <= queuedBoxesByHeight[n].height + minStorageRentAgeBlocks
    /\ \A n \in 1..Len(promoted.before) :
         LET bucket == promoted.before[n]
         IN  IF chainHeight > bucket.height + minStorageRentAgeBlocks
             THEN Range(bucket.boxes) \subseteq Range(promoted.nowEligible)
             ELSE bucket \in Range(queuedBoxesByHeight)

\* C4 witness: one promotion step that promoted a bucket at the first
\* height at which it may be promoted and kept a bucket at its boundary.
C4_Witness ==
  /\ promoted.count = 1
  /\ \E n \in 1..Len(promoted.before) :
       /\ chainHeight = promoted.before[n].height + minStorageRentAgeBlocks + 1
       /\ Range(promoted.before[n].boxes) \subseteq Range(promoted.nowEligible)
  /\ \E n \in 1..Len(queuedBoxesByHeight) :
       chainHeight = queuedBoxesByHeight[n].height + minStorageRentAgeBlocks

\* C5: promoting the queue a second time at the same height yields no
\* claimable box and leaves the queue as the first promotion left it.
C5_PromotionIsIdempotent ==
  promoted.count = 2 =>
    /\ promoted.nowEligible = << >>
    /\ queuedBoxesByHeight = promoted.before

\* C5 witness: a second promotion after a first one that promoted boxes and
\* left a bucket in the queue.
C5_Witness ==
  /\ promoted.count = 2
  /\ promoted.claimable > 0
  /\ queuedBoxesByHeight # << >>

SumValues(s) == SumSeq([ i \in 1..Len(s) |-> s[i].value ])

ChangeOutputs(tx) == SelectSeq(tx.outputs, LAMBDA o : o.ergoTree = ergoTreeOf(changeAddr))

C8_CyclesNeverOverlap == Cardinality({ c \in Cycles : InFlight(c) }) <= 1

\* what cycle c has accumulated, or returned, after a step
ResultAfter(c) == IF cyc'[c].pc = "idle" THEN lastReturn'.result ELSE cyc'[c].result

\* C9: when building, signing or broadcasting a batch fails, the failure is
\* counted in failedTransactions and in errors and every box of the batch
\* is stored with status error.
C9_FailedBatchBoxesAreError ==
  [][ \A c \in Cycles :
        (cyc[c].pc = "batch" /\ cyc'[c] # cyc[c] /\ cyc'[c].pc # "record") =>
          LET f     == cyc[c]
              boxes == f.batches[f.i + 1]
          IN  /\ ResultAfter(c).failedTransactions = f.result.failedTransactions + 1
              /\ Len(ResultAfter(c).errors) = Len(f.result.errors) + 1
              /\ \A i \in 1..Len(boxes) :
                   eligible_boxes'[boxes[i].boxId].status = "error"
    ]_vars

\* C10: when processBatch returns from a submitted batch, the store holds
\* a pending transaction record with the txId and the batch's box ids in
\* batch order, and holds every box of the batch as claimed with that txId.
C10_SubmittedBatchIsRecorded ==
  [][ \A c \in Cycles :
        (cyc[c].pc = "mark" /\ cyc'[c] # cyc[c] /\ cyc'[c].pc # "mark") =>
          LET f     == cyc[c]
              boxes == f.batches[f.i + 1]
          IN  /\ \E n \in 1..Len(transactions') :
                   /\ transactions'[n].txId = f.txId
                   /\ transactions'[n].status = "pending"
                   /\ transactions'[n].boxIds = [ i \in 1..Len(boxes) |-> boxes[i].boxId ]
              /\ \A i \in 1..Len(boxes) :
                   eligible_boxes'[boxes[i].boxId] = [ status |-> "claimed", txId |-> f.txId ]
    ]_vars

StatusOfTx(table, txId) ==
  IF \E i \in 1..Len(table) : table[i].txId = txId
  THEN (CHOOSE t \in Range(table) : t.txId = txId).status
  ELSE "none"

Monitored(ms, txId) == \E m \in ms : m.txId = txId

Terminal == { "confirmed", "failed" }

C12_TerminalTransactionFinalizesBoxes ==
  \A i \in 1..Len(transactions) :
    transactions[i].status \in Terminal =>
      \A id \in Range(transactions[i].boxIds) :
        eligible_boxes[id].status =
          (IF transactions[i].status = "confirmed" THEN "confirmed" ELSE "error")

\* C13: when the node lookup misses exactly one box of a batch and the
\* other boxes make a transaction by themselves, the builder leaves the
\* missing box out and returns the transaction of the other boxes.
C13_MissingBoxIsLeftOut ==
  LET boxes     == buildIn.boxes
      remaining == SelectSeq(boxes, LAMBDA b : b.boxId \notin buildIn.spentNow)
  IN  ( /\ buildOut # NoBuild
        /\ buildIn.policy = "rent-funds-fee"
        /\ Len(remaining) = Len(boxes) - 1
        /\ remaining # << >>
        /\ buildStorageRentTransaction(buildIn.policy, remaining, {}, buildIn.walletUtxos).ok )
      => /\ buildOut.ok
         /\ BoxIdsOf(buildOut.unsignedTx.inputs) = BoxIdsOf(remaining)

\* C14: when the request for a page fails (the step leaves the scan's
\* locals as the failure handler does, where an answered request would have
\* found a box), the scan is over after that step and the stored cursor is
\* what it was, so the next scan starts where this one started.
C14_FailedPageAbortsScan ==
  [][ \A c \in Cycles :
        ( /\ cyc[c].pc = "scan"
          /\ cyc'[c] # cyc[c]
          /\ ScanPageOk(cyc[c].scan, cyc[c].currentHeight,
                        minStorageRentAgeBlocks, spent, {}) # ScanPageFailed(cyc[c].scan)
          /\ cyc'[c].scan = ScanPageFailed(cyc[c].scan) )
        => /\ cyc'[c].pc # "scan"
           /\ lastSearchOffset' = lastSearchOffset
    ]_vars

\* C15: any two queue scans of one process run were started at chain
\* heights at least the rescan interval apart; in particular two scans that
\* are under way together.
C15_ScansAreAnIntervalApart ==
  \A c, d \in Cycles :
    (c # d /\ cyc[c].pc = "scan" /\ cyc[d].pc = "scan") =>
      \/ cyc[c].currentHeight - cyc[d].currentHeight >= RescanInterval
      \/ cyc[d].currentHeight - cyc[c].currentHeight >= RescanInterval

\* C16: no call of runScanAndProcess throws to its caller.
C16_CycleNeverThrows == ~lastReturn.threw

\* C17: every batch createTransactionBatches returns holds between 1 and
\* maxBoxesPerTx boxes, and the batches put one after the other are the
\* input list.
C17_BatchesPartitionTheList ==
  callOut.of = "createTransactionBatches" =>
    /\ \A i \in 1..Len(callOut.batches) :
         /\ Len(callOut.batches[i]) >= 1
         /\ Len(callOut.batches[i]) <= callIn.maxBoxesPerTx
    /\ Concat(callOut.batches) = callIn.boxes

\* a list that does not divide evenly: full batches and a shorter last one
C17_Witness ==
  /\ callOut.of = "createTransactionBatches"
  /\ callIn.maxBoxesPerTx > 1
  /\ Len(callOut.batches) >= 2
  /\ Len(callOut.batches[Len(callOut.batches)]) < callIn.maxBoxesPerTx
  /\ Len(callOut.batches[1]) = callIn.maxBoxesPerTx

\* C18: for an unspent box inside the look-ahead window the scanner's rent
\* fee is boxSize * rentFeePerByte and the box is accepted exactly when
\* value >= boxSize * rentFeePerByte + boxSize * minBoxValuePerByte (size
\* 105 at 1250000 and 360 per byte with value 500000000: fee 131250000,
\* minimum 37800, accepted); an accepted box stays accepted at every higher
\* value.
C18_AcceptanceByValue ==
  callOut.of = "checkBox" =>
    LET inWindow == /\ ~callIn.spent
                    /\ blocksUntilEligible(callIn, StartHeight,
                                            minStorageRentAgeBlocks) <= LookAhead
        rent     == callIn.boxSize * callIn.rentFeePerByte
        minimum  == callIn.boxSize * callIn.minBoxValuePerByte
        d        == callOut.decision
    IN  /\ inWindow => d.rentFee = rent
        /\ inWindow => (d.accepted <=> callIn.value >= rent + minimum)
        /\ ~inWindow => ~d.accepted
        /\ ( /\ inWindow
             /\ callIn.boxSize = 105
             /\ callIn.rentFeePerByte = 1250000
             /\ callIn.minBoxValuePerByte = 360
             /\ callIn.value = 500000000 )
           => d.rentFee = 131250000 /\ minimum = 37800 /\ d.accepted
        /\ d.accepted =>
             \A v \in CheckValues :
               v >= callIn.value =>
                 CheckBox([callIn EXCEPT !.value = v], StartHeight,
                          minStorageRentAgeBlocks, callIn.rentFeePerByte,
                          callIn.minBoxValuePerByte).accepted

\* the box of the example has been accepted
C18_Witness ==
  /\ callOut.of = "checkBox"
  /\ callIn.boxSize = 105
  /\ callIn.rentFeePerByte = 1250000
  /\ callIn.minBoxValuePerByte = 360
  /\ callIn.value = 500000000
  /\ callOut.decision.accepted
  /\ callOut.decision.rentFee = 131250000

\* the keys the bot writes to bot_state for other purposes
\* (storageRentBot.ts:55-56, 81-82, 102, 638, 656)
LifecycleKeys ==
  InitialBotState \cup { "status", "started_at", "wallet_balance", "last_metrics_update" }

\* C19: once a scan has completed, persistent bot-state holds an entry for
\* the scan cursor and one for the last-scan height.
C19_CursorIsPersisted ==
  lastQueueScanHeight # 0 => Cardinality(bot_state \ LifecycleKeys) >= 2

\* C20: with dryRun no transaction is signed or sent to the node, no
\* transaction row is written, no box is marked claimed and no confirmation
\* monitor is started.
C20_DryRunSubmitsNothing ==
  dryRun =>
    /\ ~signed
    /\ nextTxId = 0
    /\ transactions = << >>
    /\ \A id \in BoxIds : eligible_boxes[id].status # "claimed"
    /\ monitors = {}

\* a dry-run cycle has built two batches and reported them as successful
C20_Witness ==
  /\ dryRun
  /\ lastReturn.result.successfulTransactions >= 2
  /\ lastReturn.result.processedBoxes >= 2

\* C21: promotion never splits a bucket: after a promotion step every bucket
\* the queue held before it is either still in the queue with all of its
\* boxes in their order, or its height is gone from the queue and its boxes
\* were handed to processing by that step, together and in their order.
C21_PromotionNeverSplitsABucket ==
  promoted.count = 1 =>
    \A n \in 1..Len(promoted.before) :
      LET bucket == promoted.before[n]
          size   == Len(bucket.boxes)
      IN  \/ bucket \in Range(queuedBoxesByHeight)
          \/ /\ ~MapHas(queuedBoxesByHeight, bucket.height)
             /\ \E k \in 0..(Len(promoted.nowEligible) - size) :
                  SubSeq(promoted.nowEligible, k + 1, k + size) = bucket.boxes

\* C21 witness: one promotion step that removed a bucket of several boxes
\* and left another bucket in the queue.
C21_Witness ==
  /\ promoted.count = 1
  /\ \E n \in 1..Len(promoted.before) :
       /\ Len(promoted.before[n].boxes) > 1
       /\ ~MapHas(queuedBoxesByHeight, promoted.before[n].height)
       /\ Range(promoted.before[n].boxes) \subseteq Range(promoted.nowEligible)
  /\ queuedBoxesByHeight # << >>

\* the boxes of the batch a cycle is about to build
CurrentBatch(c) == cyc[c].batches[cyc[c].i + 1]

\* C22: a batch one of whose boxes the node reports spent or missing while
\* the batch is built is not broadcast: processBatch leaves it with nothing
\* signed or sent, nothing spent at the node, no transaction recorded, and
\* the batch counted as failed.
C22_MissingInputIsNeverBroadcast ==
  [][ \A c \in Cycles :
        ( /\ cyc[c].pc = "batch"
          /\ cyc'[c] # cyc[c]
          /\ \E i \in 1..Len(CurrentBatch(c)) : CurrentBatch(c)[i].boxId \in spent )
        => /\ signed' = signed
           /\ spent' = spent
           /\ nextTxId' = nextTxId
           /\ transactions' = transactions
           /\ cyc'[c].pc # "record"
           /\ ResultAfter(c).failedTransactions = cyc[c].result.failedTransactions + 1
    ]_vars

\* C22 witness: a batch holding a box that was spent before it was built has
\* failed, and a later batch of the same cycle was broadcast.
C22_Witness ==
  /\ lastReturn.result.failedTransactions > 0
  /\ lastReturn.result.successfulTransactions > 0
  /\ ~dryRun
  /\ \E i \in 1..Len(lastReturn.batches) :
       /\ \E k \in 1..Len(lastReturn.batches[i]) : lastReturn.batches[i][k].boxId \in spent
       /\ \A t \in 1..Len(transactions) :
            \A k \in 1..Len(lastReturn.batches[i]) :
              lastReturn.batches[i][k].boxId \notin Range(transactions[t].boxIds)

(***************************************************************************)
(* The start of processEligibleBoxes on its own (storageRentBot.ts:        *)
(* 364-414): the promoted boxes are saved, validated and split into        *)
(* batches.  The boxes are drawn from bounded sets, and one of them may    *)
(* have been spent by somebody else since it was queued.                   *)
(***************************************************************************)
InitValidate ==
  \E boxes \in ClaimableInputs :
    /\ chainHeight = StartHeight
    /\ spent \in SpentInputs(boxes)
    /\ isRunning = TRUE
    /\ cronJob = TRUE
    /\ lastQueueScanHeight = StartHeight
    /\ lastSearchOffset = 0
    /\ queuedBoxesByHeight = << >>
    /\ cyc = [ c \in Cycles |->
                 IF c = 1
                 THEN [IdleFrame EXCEPT !.pc = "insert", !.caller = "cron",
                                        !.currentHeight = StartHeight,
                                        !.nowEligible = boxes]
                 ELSE IdleFrame ]
    /\ eligible_boxes = [ id \in BoxIds |-> NoRow ]
    /\ transactions = << >>
    /\ nextTxId = 0
    /\ handed = [ id \in BoxIds |-> 0 ]
    /\ lastReturn = NoReturn
    /\ promoted = NoPromotion
    /\ buildIn = NoBuild
    /\ buildOut = NoBuild
    /\ monitors = {}
    /\ lastPoll = NoPoll
    /\ dryRun \in BOOLEAN
    /\ signed = FALSE
    /\ bot_state = InitialBotState \cup { "status", "started_at" }
    /\ callIn = NoCall
    /\ callOut = NoCall

NextValidate == \E c \in Cycles : InsertBox(c)

SpecValidate == InitValidate /\ [][NextValidate]_vars

\* C23: when the batches of a cycle have been made, no box of a batch is
\* spent at the node, every promoted box that is spent is stored with
\* status error, and every promoted box that is unspent is in a batch.
C23_SpentBoxIsDroppedBeforeBatching ==
  \A c \in Cycles :
    cyc[c].pc = "batch" =>
      LET batched == Range(BoxIdsOf(Concat(cyc[c].batches)))
      IN  \A k \in 1..Len(cyc[c].nowEligible) :
            LET id == cyc[c].nowEligible[k].boxId
            IN  IF id \in spent
                THEN id \notin batched /\ eligible_boxes[id].status = "error"
                ELSE id \in batched

\* C24: in every transaction built from a batch (the rent funding the fee),
\* the inputs are the batch's boxes in the batch's order, the input at
\* position i carries in context variable 127 the index i as the node reads
\* it (a Short constant: type code 3, then the value in zigzag encoding, one
\* byte for an index below 64), and output i recreates the box at position i.
C24_InputOrderAndMarkers ==
  (buildOut # NoBuild /\ buildIn.policy = "rent-funds-fee" /\ buildOut.ok) =>
    LET tx == buildOut.unsignedTx
    IN  /\ BoxIdsOf(tx.inputs) = BoxIdsOf(buildIn.boxes)
        /\ \A i \in 1..Len(tx.inputs) : tx.inputs[i].marker = << 3, 2 * (i - 1) >>
        /\ \A i \in 1..Len(buildIn.boxes) :
             /\ tx.outputs[i].ergoTree = buildIn.boxes[i].ergoTree
             /\ tx.outputs[i].assets = buildIn.boxes[i].assets
             /\ tx.outputs[i].additionalRegisters = buildIn.boxes[i].additionalRegisters
             /\ tx.outputs[i].value = buildIn.boxes[i].value - buildIn.boxes[i].rentFee

\* C25: every transaction the builder returns for a batch has, for every box
\* of the batch, exactly one output that recreates it: the box's value less
\* its rentFee under the box's ergoTree, with the box's assets and
\* additional registers; and the totalRentCollected returned with it is the
\* sum of the boxes' rentFee.
C25_OutputsRecreateTheBoxes ==
  (buildOut # NoBuild /\ buildOut.ok) =>
    LET boxes   == buildIn.boxes
        outputs == buildOut.unsignedTx.outputs
    IN  /\ \A i \in 1..Len(boxes) :
             LET recreated == [ value               |-> boxes[i].value - boxes[i].rentFee,
                                ergoTree            |-> boxes[i].ergoTree,
                                assets              |-> boxes[i].assets,
                                additionalRegisters |-> boxes[i].additionalRegisters ]
             IN  Cardinality({ j \in 1..Len(outputs) : outputs[j] = recreated }) = 1
        /\ buildOut.totalRentCollected
             = SumSeq([ i \in 1..Len(boxes) |-> boxes[i].rentFee ])

\* C25 witness: a transaction built from two boxes, one of a public key and
\* one of a script that holds tokens and registers.
C25_Witness ==
  /\ buildOut # NoBuild
  /\ buildOut.ok
  /\ Len(buildIn.boxes) = 2
  /\ \E i, j \in 1..2 :
       /\ buildIn.boxes[i].assets # << >>
       /\ buildIn.boxes[i].additionalRegisters # << >>
       /\ Len(buildIn.boxes[i].ergoTree) = 1
       /\ Len(buildIn.boxes[j].ergoTree) = 2

\* a call of scanForEligibleBoxes has returned
ScanReturned == callOut.of = "scanForEligibleBoxes" /\ ScanIsOver(callOut.st)

\* C26: the cursor only moves downward through the index: the nextOffset a
\* scan returns is not above the offset at which the scan began to read,
\* and the scan that is next called with that nextOffset over the same
\* index returns a nextOffset that is not above it.
C26_CursorMovesDownward ==
  ScanReturned =>
    LET nextOffset == callOut.st.nextOffset
        following  == scanForEligibleBoxes(callIn.currentHeight, minStorageRentAgeBlocks,
                                           nextOffset, callIn.spentNow)
    IN  /\ nextOffset <= ScanStart(callIn.startOffset).offset
        /\ following.nextOffset <= nextOffset

\* C27: a call of scanForEligibleBoxes comes to an end whatever the node
\* answers: it never holds more than targetBoxCount accepted boxes, and the
\* request for a page that holds no id (the index is exhausted) is its
\* last, so that it cannot go on requesting pages without end.
C27_ScanTerminates ==
  /\ [](callOut.of = "scanForEligibleBoxes" =>
          /\ callOut.st.totalBoxesFound <= targetBoxCount
          /\ Len(MapBoxes(callOut.st.boxesByHeight)) = callOut.st.totalBoxesFound)
  /\ [][ ( /\ callOut.of = "scanForEligibleBoxes"
           /\ BoxRange(callOut.st.offset, batchSize) = << >> )
         => ScanIsOver(callOut'.st) ]_vars

\* position of a box id in the index, 0-based
IndexPosition(id) == CHOOSE p \in 0..(Len(BoxIndex) - 1) : BoxIndex[p + 1].boxId = id

\* the scanner would accept the box with this id
IsAcceptable(id, currentHeight, spentNow) ==
  /\ id \notin spentNow
  /\ blocksUntilEligible(BoxOf(id), currentHeight, minStorageRentAgeBlocks) <= LookAhead
  /\ hasSufficientValue(BoxOf(id))

\* C28: when the fetch of one box id of an answered page fails, the scan
\* goes on with the other ids of the page: after the page the accepted
\* boxes are those accepted before it together with the page's acceptable
\* ids other than the failing one, in the order read, up to targetBoxCount;
\* and the call is over only if the target is reached.
C28_FetchFailureSkipsOneBox ==
  [][ ( /\ callOut.of = "scanForEligibleBoxes"
        /\ callOut'.lastPage = "answered"
        /\ callOut'.requests = callOut.requests + 1
        /\ BoxRange(callOut.st.offset, batchSize) # << >> )
      => LET failing == callOut'.failed \ callOut.failed
             page    == Reverse(BoxRange(callOut.st.offset, batchSize))
             others  == SelectSeq(page, LAMBDA id :
                          /\ id \notin failing
                          /\ IsAcceptable(id, callIn.currentHeight, callIn.spentNow))
             room    == targetBoxCount - callOut.st.totalBoxesFound
             taken   == SubSeq(others, 1, Min(Len(others), room))
         IN  /\ Range(MapBoxIds(callOut'.st.boxesByHeight))
                  = Range(MapBoxIds(callOut.st.boxesByHeight)) \cup Range(taken)
             /\ callOut'.st.totalBoxesFound = callOut.st.totalBoxesFound + Len(taken)
             /\ ScanIsOver(callOut'.st) <=> Len(others) >= room
    ]_vars

\* C28 witness: a call has returned targetBoxCount boxes, one read before
\* and one read after an acceptable box whose fetch failed.
C28_Witness ==
  /\ ScanReturned
  /\ \E f \in callOut.failed :
       /\ IsAcceptable(f, callIn.currentHeight, callIn.spentNow)
       /\ f \notin Range(MapBoxIds(callOut.st.boxesByHeight))
       /\ \E a, b \in Range(MapBoxIds(callOut.st.boxesByHeight)) :
            IndexPosition(b) > IndexPosition(f) /\ IndexPosition(f) > IndexPosition(a)

\* C29: every box in a height bucket of a scan is one the node did not
\* report spent, lies within the look-ahead window (creationHeight + minAge
\* - currentHeight <= LookAhead), and is in the bucket keyed by its own
\* creation height; no bucket holds a spent box or a box beyond the window.
C29_BucketedBoxesAreUnspentAndNear ==
  callOut.of = "scanForEligibleBoxes" =>
    \A n \in 1..Len(callOut.st.boxesByHeight) :
      LET bucket == callOut.st.boxesByHeight[n]
      IN  \A i \in 1..Len(bucket.boxes) :
            LET box == bucket.boxes[i]
            IN  /\ box.boxId \notin callIn.spentNow
                /\ box.creationHeight = BoxOf(box.boxId).creationHeight
                /\ box.creationHeight + minStorageRentAgeBlocks - callIn.currentHeight
                     <= LookAhead
                /\ bucket.height = box.creationHeight

\* C29 witness: a call has bucketed a box at the last block of the
\* look-ahead window and has read, and left out, a spent box and a box
\* beyond the window.
C29_Witness ==
  /\ ScanReturned
  /\ \E a \in Range(MapBoxIds(callOut.st.boxesByHeight)) :
       /\ BoxOf(a).creationHeight + minStorageRentAgeBlocks - callIn.currentHeight = LookAhead
       /\ \E s \in callIn.spentNow :
            /\ IndexPosition(s) > IndexPosition(a)
            /\ IndexPosition(s) < ScanStart(callIn.startOffset).offset + batchSize
       /\ \E b \in BoxIds :
            /\ BoxOf(b).creationHeight + minStorageRentAgeBlocks - callIn.currentHeight > LookAhead
            /\ IndexPosition(b) > IndexPosition(a)
            /\ IndexPosition(b) < ScanStart(callIn.startOffset).offset + batchSize

\* C30: a box that a scan has fetched, that is unspent and within the
\* look-ahead window and fails the value check, has a row in eligible_boxes
\* with status error or insufficient_funds once its page has been worked
\* through, and is in no height bucket (so is never promoted or batched).
C30_RejectedBoxIsRecorded ==
  [][ ( /\ callOut.of = "scanForEligibleBoxes"
        /\ callOut'.lastPage = "answered"
        /\ callOut'.requests = callOut.requests + 1
        /\ ~callOut'.st.returned )
      => \A id \in Range(BoxRange(callOut.st.offset, batchSize)) :
           ( /\ id \notin callOut'.failed
             /\ id \notin callIn.spentNow
             /\ BoxOf(id).creationHeight + minStorageRentAgeBlocks - callIn.currentHeight
                  <= LookAhead
             /\ ~hasSufficientValue(BoxOf(id)) )
           => /\ id \notin Range(MapBoxIds(callOut'.st.boxesByHeight))
              /\ eligible_boxes'[id] # NoRow
              /\ eligible_boxes'[id].status \in {"error", "insufficient_funds"}
    ]_vars

C32_RecordChangesOnlyItsStatus ==
  [][ \A t \in Range(transactions) :
        LET after == { u \in Range(transactions') : u.txId = t.txId }
        IN  /\ Cardinality(after) = 1
            /\ \A u \in after :
                 /\ u = [t EXCEPT !.status = u.status]
                 /\ u.status # t.status =>
                      t.status = "pending" /\ u.status \in Terminal
    ]_vars

\* C32 witness: the cycle is over and all monitors have ended; the first
\* record was settled as failed, a later one as confirmed.
C32_Witness ==
  /\ Len(transactions) >= 2
  /\ transactions[1].status = "failed"
  /\ transactions[2].status = "confirmed"
  /\ monitors = {}
  /\ \A c \in Cycles : cyc[c].pc = "idle"

(***************************************************************************)
(* Submission and confirmation with a store whose writes may fail: the     *)
(* steps of SpecMonitor, and next to each write of processBatch and of the *)
(* monitor the step in which sqlite reports an error and the promise of    *)
(* the write is rejected (database/index.ts:218-220, 157-159, 263-265).    *)
(***************************************************************************)
\* storageRentBot.ts:539, 573-584: insertTransaction rejects after the
\* broadcast; the catch of processBatch returns the batch as failed
InsertTransactionFails(c) ==
  /\ cyc[c].pc = "record"
  /\ AfterBatch(c, cyc[c], FailedBatch(cyc[c].i + 1))
  /\ UNCHANGED << nodeVars, isRunning, lastQueueScanHeight, lastSearchOffset,
                  queuedBoxesByHeight, storeVars, nextTxId, handed, buildVars,
                  monitorVars, dryRun, signed >>

\* storageRentBot.ts:541-544, 573-584: updateBoxStatus rejects for a box of
\* the submitted batch; the catch of processBatch returns the batch as
\* failed, the remaining boxes are not marked and no monitor is started
UpdateBoxStatusFails(c) ==
  /\ cyc[c].pc = "mark"
  /\ AfterBatch(c, cyc[c], FailedBatch(cyc[c].i + 1))
  /\ UNCHANGED << nodeVars, isRunning, lastQueueScanHeight, lastSearchOffset,
                  queuedBoxesByHeight, storeVars, nextTxId, handed, buildVars,
                  monitorVars, dryRun, signed >>

\* storageRentBot.ts:599, 615-626: what the loop does with one attempt
\* whose status write is rejected.  The rejected write of confirmed is
\* caught like a failed lookup; after the last attempt the write of failed
\* follows, and when that one is rejected (finalOk false) the monitor's
\* promise is rejected with the status as it was.
AfterAttemptStoreFails(attempt, isConfirmed, finalOk) ==
  IF attempt < maxAttempts
  THEN [ status |-> "unchanged", returned |-> FALSE, threw |-> FALSE ]
  ELSE IF finalOk
       THEN [ status |-> "failed", returned |-> TRUE, threw |-> FALSE ]
       ELSE [ status |-> "unchanged", returned |-> TRUE, threw |-> TRUE ]

\* the rejection reaching the caller of the cycle
MonitorCatch_rethrows(ret, a) == IF a.threw THEN [ret EXCEPT !.threw = TRUE] ELSE ret

\* storageRentBot.ts:562-568: the catch attached to the monitor's promise
\* logs the rejection; ret is what the last cycle returned
MonitorCatch(ret, a) == ret

\* storageRentBot.ts:588-632, 562-568: the check interval of one monitor is
\* over, the node answers its lookup, and a status write of this attempt is
\* rejected: the write of confirmed, or the write of failed after the last
\* attempt.  A rejection of the monitor's promise is logged by the catch
\* at 562.
PollStoreFails ==
  /\ \E m \in monitors, response \in TransactionResponses, finalOk \in BOOLEAN :
       LET isConfirmed == isTransactionConfirmed(response)
           a == AfterAttemptStoreFails(m.attempt, isConfirmed, finalOk)
       IN  /\ \/ ~isConfirmed.threw /\ isConfirmed.value
              \/ m.attempt = maxAttempts /\ ~finalOk
           /\ transactions' = IF a.status = "unchanged" THEN transactions
                               ELSE updateTransactionStatus(transactions, m.txId, a.status)
           /\ monitors' = (monitors \ {m}) \cup
                             (IF a.returned THEN {} ELSE { [m EXCEPT !.attempt = @ + 1] })
           /\ lastPoll' = [ txId |-> m.txId, attempt |-> m.attempt, response |-> response ]
           /\ lastReturn' = MonitorCatch(lastReturn, a)
  /\ UNCHANGED << nodeVars, isRunning, cronJob, lastQueueScanHeight, lastSearchOffset,
                  queuedBoxesByHeight, cyc, eligible_boxes, nextTxId, handed,
                  buildVars, dryRun, signed, bot_state >>

NextFaults ==
  \/ \E c \in Cycles : BuildAndSubmit(c)
  \/ \E c \in Cycles : InsertTransaction(c)
  \/ \E c \in Cycles : InsertTransactionFails(c)
  \/ \E c \in Cycles : UpdateBoxStatus(c)
  \/ \E c \in Cycles : UpdateBoxStatusFails(c)
  \/ \E c \in Cycles : DelayElapsed(c)
  \/ PollConfirmation
  \/ PollStoreFails

SpecFaults == InitMonitor /\ [][NextFaults]_vars

\* the steps of cycle c in which processBatch returns
BatchReturns(c) ==
  /\ cyc[c].pc \in { "batch", "record", "mark" }
  /\ cyc'[c].pc \in { "delay", "idle" }

\* C33: the step that starts the monitor of a submitted transaction is the
\* step in which processBatch returns the batch as successful, before any
\* poll of that monitor; and a step of a monitor, also one in which the
\* monitor ends with an error,
\* changes neither the frame or the result of a cycle, nor isRunning or the
\* cron job, nor another transaction's monitor.
C33_MonitorIsFireAndForget ==
  [][ /\ \A t \in 1..nextTxId' :
           (~Monitored(monitors, t) /\ Monitored(monitors', t)) =>
              /\ StartMonitor(t) \in monitors'
              /\ \E c \in Cycles :
                   /\ cyc[c].txId = t
                   /\ BatchReturns(c)
                   /\ ResultAfter(c).successfulTransactions
                        = cyc[c].result.successfulTransactions + 1
      /\ lastPoll' # lastPoll =>
           /\ cyc' = cyc
           /\ lastReturn' = lastReturn
           /\ isRunning' = isRunning
           /\ cronJob' = cronJob
           /\ { m \in monitors' : m.txId # lastPoll'.txId }
                = { m \in monitors : m.txId # lastPoll'.txId }
    ]_vars

\* C33 witness: the monitor of the first transaction has ended with an
\* error (its last status write was rejected, the record is still pending)
\* while the cycle was under way; the cycle has since returned both batches
\* as successful, and the monitor of the second transaction has not
\* polled yet.
C33_Witness ==
  /\ \A c \in Cycles : cyc[c].pc = "idle"
  /\ lastReturn.result.successfulTransactions = 2
  /\ ~lastReturn.threw
  /\ lastPoll.txId = 1
  /\ lastPoll.attempt = maxAttempts
  /\ ~Monitored(monitors, 1)
  /\ StatusOfTx(transactions, 1) = "pending"
  /\ StartMonitor(2) \in monitors

\* C34: within a cycle the batch index only moves from k to k + 1, in the
\* step in which the inter-batch delay ends and the build of batch k + 1 is
\* begun; the delay is entered only in the step in which processBatch of
\* batch k returns, submitted or failed, with k + 1 batches accounted for;
\* and processBatch's return is followed by the delay exactly when the
\* batch is not the last one, otherwise by the return of the cycle.
C34_BatchesRunInOrderWithDelay ==
  [][ \A c \in Cycles :
        /\ (InFlight(c) /\ cyc'[c].pc = "batch" /\ cyc'[c] # cyc[c]) =>
              /\ cyc[c].pc = "delay"
              /\ cyc'[c].i = cyc[c].i + 1
              /\ cyc'[c].batches = cyc[c].batches
        /\ (InFlight(c) /\ InFlight(c)' /\ cyc'[c].pc # "batch") =>
              cyc'[c].i = cyc[c].i
        /\ (cyc[c].pc # "delay" /\ cyc'[c].pc = "delay") =>
              /\ BatchReturns(c)
              /\ cyc'[c].result.successfulTransactions
                   + cyc'[c].result.failedTransactions = cyc[c].i + 1
        /\ BatchReturns(c) =>
              (cyc'[c].pc = "delay" <=> cyc[c].i + 1 < Len(cyc[c].batches))
    ]_vars

\* C34 witness: the first batch has failed, the delay after it has elapsed
\* and the second, last batch is being recorded after its broadcast.
C34_Witness ==
  \E c \in Cycles :
    /\ cyc[c].pc = "record"
    /\ cyc[c].i = 1
    /\ Len(cyc[c].batches) = 2
    /\ cyc[c].result.failedTransactions = 1

\* C35: when processBatch returns for a batch whose broadcast returned a
\* txId, table transactions holds a record of that txId, the batch has been
\* counted in successfulTransactions and not in failedTransactions, and a
\* monitor of the txId has been started.
C35_BroadcastIsAlwaysRecorded ==
  [][ \A c \in Cycles :
        (BatchReturns(c) /\ cyc[c].txId # 0) =>
          /\ StatusOfTx(transactions', cyc[c].txId) # "none"
          /\ ResultAfter(c).successfulTransactions
               = cyc[c].result.successfulTransactions + 1
          /\ ResultAfter(c).failedTransactions = cyc[c].result.failedTransactions
          /\ Monitored(monitors', cyc[c].txId)
    ]_vars

\* C36: after a poll that has observed the transaction confirmed, also one
\* whose status write raised an error, the transaction is not recorded as
\* failed.
C36_ConfirmedIsNeverRecordedFailed ==
  [][ (lastPoll' # lastPoll /\ lastPoll'.response = "confirmed") =>
         StatusOfTx(transactions', lastPoll'.txId) # "failed"
    ]_vars

\* C37: a row of eligible_boxes that is claimed with a txId is in no step
\* set back to pending or queued, and its txId is in no step cleared.
C37_ClaimedRowIsNeverOverwritten ==
  [][ \A id \in BoxIds :
        (eligible_boxes[id].status = "claimed" /\ eligible_boxes[id].txId # 0) =>
          /\ eligible_boxes'[id].status \notin { "pending", "queued" }
          /\ eligible_boxes'[id].txId # 0
    ]_vars

\* the call has stopped inside a page because targetBoxCount was reached
StoppedAtTarget ==
  /\ ScanReturned
  /\ callOut.st.totalBoxesFound >= targetBoxCount

\* the ids of the page the call stopped in that come after the box at
\* which it stopped, in the order the loop would have read them
NotYetExamined ==
  LET page == Reverse(BoxRange(callOut.st.offset, batchSize))
      j    == callOut.st.nextOffset - callOut.st.offset + batchSize
  IN  SubSeq(page, j + 2, Len(page))

\* C38: when a scan has stopped inside a page at targetBoxCount, every id
\* of that page it had not examined lies in the part of the index that the
\* scan started from the returned nextOffset reads (the positions below
\* the end of its first page).
C38_ChainedScansLeaveNoGap ==
  StoppedAtTarget =>
    \A id \in Range(NotYetExamined) :
      IndexPosition(id) < ScanStart(callOut.st.nextOffset).offset + batchSize

\* the result r accounts for the first done batches of bs: every batch is
\* counted once, as successful or as failed; errors has one entry per
\* failed batch; processedBoxes and totalRentCollected are the number and
\* the summed rentFee of the boxes of the batches that did not fail
Accounts(r, bs, done) ==
  LET failed == { r.errors[n] : n \in 1..Len(r.errors) }
      ok     == (1..done) \ failed
      okSeq  == SelectSeq([ k \in 1..done |-> k ], LAMBDA k : k \in ok)
  IN  /\ r.successfulTransactions + r.failedTransactions = done
      /\ Len(r.errors) = r.failedTransactions
      /\ Cardinality(failed) = r.failedTransactions
      /\ failed \subseteq 1..done
      /\ r.successfulTransactions = Cardinality(ok)
      /\ r.processedBoxes = SumSeq([ n \in 1..Len(okSeq) |-> Len(bs[okSeq[n]]) ])
      /\ r.totalRentCollected = SumSeq([ n \in 1..Len(okSeq) |-> TotalRent(bs[okSeq[n]]) ])

\* C39: the result a cycle returns accounts for all of its batches, and the
\* result of a cycle under way accounts for the batches that have returned;
\* without dryRun the batches counted as successful are those with a
\* record in table transactions.
C39_ResultAccountsForEveryBatch ==
  /\ Accounts(lastReturn.result, lastReturn.batches, Len(lastReturn.batches))
  /\ \A c \in Cycles :
       cyc[c].pc \in { "batch", "record", "mark", "delay" } =>
         Accounts(cyc[c].result, cyc[c].batches,
                  cyc[c].i + (IF cyc[c].pc = "delay" THEN 1 ELSE 0))
  /\ (\A c \in Cycles : cyc[c].pc = "idle") /\ ~dryRun =>
       LET r  == lastReturn.result
           bs == lastReturn.batches
       IN  { BoxIdsOf(bs[k]) : k \in (1..Len(bs)) \ Range(r.errors) }
             = { transactions[n].boxIds : n \in 1..Len(transactions) }

\* C39 witness: a cycle of two batches has returned; the first batch, of
\* two boxes, failed and the second, of one box, was submitted.
C39_Witness ==
  /\ \A c \in Cycles : cyc[c].pc = "idle"
  /\ Len(lastReturn.batches) = 2
  /\ lastReturn.result.errors = << 1 >>
  /\ lastReturn.result.successfulTransactions = 1
  /\ lastReturn.result.processedBoxes = 1
  /\ lastReturn.result.totalRentCollected > 0
  /\ Len(transactions) = 1

\* C40: the transactionFee of the record inserted for a submitted batch,
\* and the amount the batch adds to the cycle's totalFeesPaid, equal the
\* fee of the transaction that was built for the batch and broadcast.
C40_RecordedFeeIsThePaidFee ==
  [][ \A c \in Cycles :
        cyc[c].txId # 0 =>
          LET built == buildStorageRentTransaction("rent-funds-fee", CurrentBatch(c),
                                                   {}, << >>)
          IN  /\ (cyc[c].pc = "record" /\ cyc'[c].pc = "mark") =>
                   \E n \in 1..Len(transactions') :
                     /\ transactions'[n].txId = cyc[c].txId
                     /\ transactions'[n].transactionFee = built.unsignedTx.fee
              /\ (cyc[c].pc = "mark" /\ BatchReturns(c)) =>
                   ResultAfter(c).totalFeesPaid
                     = cyc[c].result.totalFeesPaid + built.unsignedTx.fee
    ]_vars

====
